---- MODULE Spec2Model ----
(***************************************************************************)
(* Model of the gocl SQL runner (Basfer/oracle-on-the-go).                 *)
(*                                                                         *)
(* Two revisions of the program live in the repository:                    *)
(*   src/unnamed/part_002  processCommands / executeQuery / cleanQuery /   *)
(*                         extractQueryInfo / substituteParams /           *)
(*                         writeOutput and the writers of each format      *)
(*   src/main.go           processLines / substituteParams /               *)
(*                         executeTextQueries and the row formatters       *)
(*                                                                         *)
(* A Go string is modelled as a sequence of one-character strings, so that *)
(* trimming, suffix tests, replacement and the directive regexp are        *)
(* computed character by character as the library does.                    *)
(***************************************************************************)
EXTENDS Integers, Sequences, FiniteSets, TLC

VARIABLES
    input,          \* the lines the bufio.Scanner will yield (reader content)
    lineNum,        \* processCommands: lines read so far
    buffer,         \* processCommands: strings.Builder of the statement
    commentBuffer,  \* processCommands: strings.Builder of the "--" lines
    queryIndex,     \* processCommands: 1-based index of the next statement
    events,         \* what the run did to the database and to the sinks
    err,            \* error returned by the run ("nil" when none)
    pc,             \* position of the run
    params,         \* AppParams.Params: map from name to value
    arg,            \* argument of the function under test
    ret,            \* what that function returned
    output,         \* the OutputConfig of the sink that is written
    dest,           \* what that sink holds: the text of the file or of
                    \* stdout, or the workbook saved under the file name
    workbook        \* main.go executeExcelQueries: the excelize.File f in
                    \* memory

vars == <<input, lineNum, buffer, commentBuffer, queryIndex, events, err, pc,
          params, arg, ret, output, dest, workbook>>

cmdVars == <<input, lineNum, buffer, commentBuffer, queryIndex, events, err, pc>>

sinkVars == <<output, dest, workbook>>

----------------------------------------------------------------------------
(* Bounds                                                                  *)

MaxStrLen == 5
MaxLines == 4
MaxQueryLen == 4
MaxCellLen == 2
MaxStatements == 3

----------------------------------------------------------------------------
(* package strings                                                         *)

\* unicode.IsSpace on the characters the model's alphabets contain
WhiteSpace == {" ", "\t", "\n", "\r"}

RECURSIVE TrimLeftSpace(_)
TrimLeftSpace(s) ==
    IF s # <<>> /\ Head(s) \in WhiteSpace THEN TrimLeftSpace(Tail(s)) ELSE s

RECURSIVE TrimRightSpace(_)
TrimRightSpace(s) ==
    IF s # <<>> /\ s[Len(s)] \in WhiteSpace
    THEN TrimRightSpace(SubSeq(s, 1, Len(s) - 1))
    ELSE s

\* strings.TrimSpace
TrimSpace(s) == TrimRightSpace(TrimLeftSpace(s))

RECURSIVE TrimLeftSet(_, _)
TrimLeftSet(s, cutset) ==
    IF s # <<>> /\ Head(s) \in cutset THEN TrimLeftSet(Tail(s), cutset) ELSE s

RECURSIVE TrimRightSet(_, _)
TrimRightSet(s, cutset) ==
    IF s # <<>> /\ s[Len(s)] \in cutset
    THEN TrimRightSet(SubSeq(s, 1, Len(s) - 1), cutset)
    ELSE s

\* strings.Trim(s, cutset)
Trim(s, cutset) == TrimRightSet(TrimLeftSet(s, cutset), cutset)

\* strings.HasPrefix
HasPrefix(s, prefix) ==
    Len(s) >= Len(prefix) /\ SubSeq(s, 1, Len(prefix)) = prefix

\* strings.HasSuffix
HasSuffix(s, suffix) ==
    Len(s) >= Len(suffix)
    /\ SubSeq(s, Len(s) - Len(suffix) + 1, Len(s)) = suffix

\* strings.TrimSuffix: removes the suffix once
TrimSuffix(s, suffix) ==
    IF HasSuffix(s, suffix) THEN SubSeq(s, 1, Len(s) - Len(suffix)) ELSE s

\* strings.Index: 1-based position of the first occurrence, 0 when absent
\* (Go returns the 0-based index, -1 when absent)
Index(s, sub) ==
    LET hits == {i \in 1..(Len(s) - Len(sub) + 1) :
                    SubSeq(s, i, i + Len(sub) - 1) = sub}
    IN IF hits = {} THEN 0
       ELSE CHOOSE i \in hits : \A j \in hits : i <= j

\* strings.ReplaceAll: the non-overlapping occurrences of old, found left to
\* right, are replaced by new; an empty old matches before every character
\* and at the end
RECURSIVE ReplaceAll(_, _, _)
ReplaceAll(s, old, new) ==
    IF old = <<>>
    THEN IF s = <<>> THEN new
         ELSE new \o <<Head(s)>> \o ReplaceAll(Tail(s), old, new)
    ELSE LET i == Index(s, old)
         IN IF i = 0 THEN s
            ELSE SubSeq(s, 1, i - 1) \o new
                 \o ReplaceAll(SubSeq(s, i + Len(old), Len(s)), old, new)

\* strings.Split(s, sep) for a one-character sep
RECURSIVE Split(_, _)
Split(s, sep) ==
    LET i == Index(s, <<sep>>)
    IN IF i = 0 THEN <<s>>
       ELSE <<SubSeq(s, 1, i - 1)>> \o Split(SubSeq(s, i + 1, Len(s)), sep)

\* all strings over alphabet of length at most n
RECURSIVE StringsUpTo(_, _)
StringsUpTo(alphabet, n) ==
    IF n = 0 THEN {<<>>}
    ELSE LET shorter == StringsUpTo(alphabet, n - 1)
         IN shorter \cup {Append(s, c) : s \in shorter, c \in alphabet}

\* a string literal of the source as a sequence of its characters
Chars(str) == [i \in 1..Len(str) |-> SubSeq(str, i, i)]

\* strings.Join
RECURSIVE Join(_, _)
Join(elems, sep) ==
    IF elems = <<>> THEN <<>>
    ELSE IF Len(elems) = 1 THEN elems[1]
    ELSE elems[1] \o sep \o Join(Tail(elems), sep)

\* strings.ContainsAny
ContainsAny(s, chars) == \E i \in 1..Len(s) : s[i] \in chars

\* strings.LastIndex: 1-based position of the last occurrence, 0 when absent
\* (Go returns the 0-based index, -1 when absent)
LastIndex(s, sub) ==
    LET hits == {i \in 1..(Len(s) - Len(sub) + 1) :
                    SubSeq(s, i, i + Len(sub) - 1) = sub}
    IN IF hits = {} THEN 0
       ELSE CHOOSE i \in hits : \A j \in hits : i >= j

\* the texts of a sequence written one after the other
RECURSIVE Concat(_)
Concat(texts) ==
    IF texts = <<>> THEN <<>> ELSE Head(texts) \o Concat(Tail(texts))

----------------------------------------------------------------------------
(* Statement splitter helpers (src/unnamed/part_002)                       *)

isCommandSeparatorNoEmptyCheck(line) ==
    \A i \in 1..Len(TrimSpace(line)) : TrimSpace(line)[i] = "/"

isCommandSeparator(line) ==
    LET trimmed == TrimSpace(line)
    IN IF trimmed = <<>> THEN FALSE
       ELSE \A i \in 1..Len(trimmed) : trimmed[i] = "/"

\* the inline separator test of processLines (src/main.go)
isSeparatorLine(line) ==
    LET trimmedLine == TrimSpace(line)
    IN trimmedLine # <<>> /\ Trim(trimmedLine, {"/"}) = <<>>

cleanQueryOnce(query) ==
    TrimSpace(TrimSuffix(TrimSpace(query), <<";">>))

RECURSIVE stripSemicolons(_)
stripSemicolons(trimmed) ==
    IF HasSuffix(trimmed, <<";">>)
    THEN stripSemicolons(TrimSpace(TrimSuffix(trimmed, <<";">>)))
    ELSE trimmed

cleanQuery(query) == stripSemicolons(TrimSpace(query))

----------------------------------------------------------------------------
(* Parameter substitution                                                  *)

\* the orders in which `for key, value := range params` may visit the keys:
\* Go leaves the iteration order of a map unspecified
KeyOrders(m) ==
    {o \in [1..Cardinality(DOMAIN m) -> DOMAIN m] :
        \A i, j \in DOMAIN o : i # j => o[i] # o[j]}

substituteKeyFirstOnly(result, key, value) ==
    LET placeholder == <<"&">> \o key
        i == Index(result, placeholder)
    IN IF i = 0 THEN result
       ELSE SubSeq(result, 1, i - 1) \o value
            \o SubSeq(result, i + Len(placeholder), Len(result))

\* one iteration of the loop of substituteParams
substituteKey(result, key, value) ==
    LET placeholder == <<"&">> \o key
    IN ReplaceAll(result, placeholder, value)

RECURSIVE substituteLoop(_, _, _)
substituteLoop(result, m, order) ==
    IF order = <<>> THEN result
    ELSE substituteLoop(substituteKey(result, Head(order), m[Head(order)]),
                        m, Tail(order))

\* substituteParams of src/unnamed/part_002, the keys visited in `order`
substituteParams(query, m, order) == substituteLoop(query, m, order)

\* substituteParams of src/main.go
substituteParamsMain(query, m, order) ==
    IF Cardinality(DOMAIN m) = 0 THEN query
    ELSE substituteLoop(query, m, order)

----------------------------------------------------------------------------
(* extractQueryInfo                                                        *)

\* \s of the regexp package
RegexSpace == {" ", "\t", "\n", "\r"}

RECURSIVE SkipSpace(_, _)
SkipSpace(s, i) ==
    IF i <= Len(s) /\ s[i] \in RegexSpace THEN SkipSpace(s, i + 1) ELSE i

\* a match of `--\s*tab\s*=\s*(.+)` starting at position i of a line without
\* "\n"; the result is the text of group 1, or <<>> when there is no match at
\* i (group 1 is never empty in a match). \s* is greedy and gives back one
\* character when nothing else is left for (.+)
tabRegexAt(s, i) ==
    IF ~(i + 1 <= Len(s) /\ s[i] = "-" /\ s[i + 1] = "-") THEN <<>>
    ELSE LET j == SkipSpace(s, i + 2)
         IN IF ~(j + 2 <= Len(s) /\ SubSeq(s, j, j + 2) = <<"t", "a", "b">>)
            THEN <<>>
            ELSE LET k == SkipSpace(s, j + 3)
                 IN IF ~(k <= Len(s) /\ s[k] = "=") THEN <<>>
                    ELSE LET m == SkipSpace(s, k + 1)
                         IN IF m <= Len(s) THEN SubSeq(s, m, Len(s))
                            ELSE IF k + 1 <= Len(s) THEN <<s[Len(s)]>>
                            ELSE <<>>

\* tabRegex.FindStringSubmatch(s): group 1 of the leftmost match, <<>> when
\* len(matches) is 0
tabRegexFind(s) ==
    LET starts == {i \in 1..Len(s) : tabRegexAt(s, i) # <<>>}
    IN IF starts = {} THEN <<>>
       ELSE tabRegexAt(s, CHOOSE i \in starts : \A j \in starts : i <= j)

\* does the regexp match the (trimmed) line at all
isTabDirective(line) == tabRegexFind(TrimSpace(line)) # <<>>

\* the table name a matching line gives (lines 433-437)
tabDirectiveName(line) ==
    LET tableName == TrimSpace(tabRegexFind(TrimSpace(line)))
        idx == Index(tableName, <<"-", "-">>)
    IN IF idx # 0 THEN TrimSpace(SubSeq(tableName, 1, idx - 1)) ELSE tableName

\* the loop of extractQueryInfo: the first matching line sets the name and
\* breaks
RECURSIVE firstTabName(_)
firstTabName(lines) ==
    IF lines = <<>> THEN <<>>
    ELSE IF isTabDirective(Head(lines)) THEN tabDirectiveName(Head(lines))
         ELSE firstTabName(Tail(lines))

extractQueryInfo(query, comment) ==
    [Query |-> query, TableName |-> firstTabName(Split(comment, "\n"))]

----------------------------------------------------------------------------
(* Run configuration                                                       *)

\* AppParams.Outputs: the configured sinks, in order
Outputs == <<"out1", "out2">>

NoParams == <<>>
OneParam == (<<"k">> :> <<"7">>)

\* how db.Query and the reading of its rows may end (executeQuery 462-503)
DbOutcomes == {"ok", "query", "columns", "scan", "rows"}

\* the lines a reader may hold
LineEmpty == <<>>
LineBlank == <<" ">>
LineSlash == <<"/">>
LineSemi == <<";">>
LineA == <<" ", "a">>
LineB == <<"&", "k">>
LineTabA == <<"-", "-", "t", "a", "b", "=", "A">>
LineTabB == <<"-", "-", " ", "t", "a", "b", " ", "=", " ", "B">>
LineNote == <<"-", "-", "x">>

SplitLines ==
    {LineEmpty, LineBlank, LineSlash, LineSemi, LineA, LineB, LineTabA}
TabLines == {LineSlash, LineA, LineTabA, LineTabB, LineNote}

LinesUpTo(lines, n) == UNION {[1..k -> lines] : k \in 0..n}

----------------------------------------------------------------------------
(* executeQuery                                                            *)

\* the sinks written last to first
writeEventsReversed(idx, n) ==
    [j \in 1..n |->
        [kind |-> "write", idx |-> idx, sink |-> Outputs[Len(Outputs) + 1 - j]]]

\* line 506-510: the sinks of params.Outputs written in slice order
writeEvents(idx, n) ==
    [j \in 1..n |-> [kind |-> "write", idx |-> idx, sink |-> Outputs[j]]]

\* lines 447-462: the statement is cleaned, the parameters are substituted
\* (the map ranged over in `order`) and db.Query is called with the result
queryCall(queryInfo, m, idx, line, order) ==
    LET finalQuery == substituteParams(cleanQuery(queryInfo.Query), m, order)
    IN [kind |-> "query", idx |-> idx, line |-> line,
        Query |-> queryInfo.Query, sql |-> finalQuery,
        TableName |-> queryInfo.TableName]

\* an executeQuery that streams: the first sink is written while the rows
\* are still being read, so a failing scan leaves a partial result behind
executeQueryStreaming(call, outcome, written) ==
    LET query == [kind |-> "query", idx |-> call.idx, line |-> call.line,
                  Query |-> call.Query, sql |-> call.sql,
                  TableName |-> call.TableName, outcome |-> outcome]
    IN IF outcome \in {"query", "columns"}
       THEN [events |-> <<query>>, err |-> outcome]
       ELSE IF outcome # "ok"
       THEN [events |-> <<query>> \o writeEvents(call.idx, 1), err |-> outcome]
       ELSE IF written < Len(Outputs)
       THEN [events |-> <<query>> \o writeEvents(call.idx, written)
                        \o <<[kind |-> "writeFailed", idx |-> call.idx,
                              sink |-> Outputs[written + 1]]>>,
             err |-> "write"]
       ELSE [events |-> <<query>> \o writeEvents(call.idx, Len(Outputs)),
             err |-> "nil"]

\* executeQuery(db, queryInfo, params, queryIndex) from the call of db.Query
\* on: the events it adds and the error it returns. outcome is how the
\* database call and the reading of the rows end, written how many sinks are
\* written before a writeOutput fails (Len(Outputs): none fails).
executeQuery(call, outcome, written) ==
    LET query == [kind |-> "query", idx |-> call.idx, line |-> call.line,
                  Query |-> call.Query, sql |-> call.sql,
                  TableName |-> call.TableName, outcome |-> outcome]
    IN IF outcome # "ok"
       THEN [events |-> <<query>>, err |-> outcome]
       ELSE IF written < Len(Outputs)
       THEN [events |-> <<query>> \o writeEvents(call.idx, written)
                        \o <<[kind |-> "writeFailed", idx |-> call.idx,
                              sink |-> Outputs[written + 1]]>>,
             err |-> "write"]
       ELSE [events |-> <<query>> \o writeEvents(call.idx, Len(Outputs)),
             err |-> "nil"]

\* the ways executeQuery may end for the statement in the buffer
executions ==
    LET queryInfo == extractQueryInfo(buffer, commentBuffer)
        calls == {queryCall(queryInfo, params, queryIndex, lineNum + 1, order) :
                     order \in KeyOrders(params)}
    IN UNION {{executeQuery(call, "ok", written) : written \in 0..Len(Outputs)}
                 \cup {executeQuery(call, outcome, 0) :
                          outcome \in DbOutcomes \ {"ok"}} :
              call \in calls}

----------------------------------------------------------------------------
(* processCommands                                                         *)

Running == pc = "scan"
NextLine == input[lineNum + 1]

\* line 356-374, buffer.Len() = 0: the separator is skipped
ReadSeparatorIdle ==
    /\ Running /\ lineNum < Len(input)
    /\ isCommandSeparator(NextLine)
    /\ Len(buffer) = 0
    /\ lineNum' = lineNum + 1
    /\ UNCHANGED <<input, buffer, commentBuffer, queryIndex, events, err, pc,
                   params, arg, ret, sinkVars>>

\* a loop that reports the error of a statement and goes on with the next
ReadSeparatorExecuteContinue ==
    /\ Running /\ lineNum < Len(input)
    /\ isCommandSeparator(NextLine)
    /\ Len(buffer) > 0
    /\ \E r \in executions :
          /\ events' = events \o r.events
          /\ lineNum' = lineNum + 1
          /\ buffer' = <<>>
          /\ commentBuffer' = <<>>
          /\ queryIndex' = queryIndex + 1
          /\ UNCHANGED <<err, pc>>
    /\ UNCHANGED <<input, params, arg, ret, sinkVars>>

\* line 356-374, buffer.Len() > 0: the statement is executed
ReadSeparatorExecute ==
    /\ Running /\ lineNum < Len(input)
    /\ isCommandSeparator(NextLine)
    /\ Len(buffer) > 0
    /\ \E r \in executions :
          /\ events' = events \o r.events
          /\ lineNum' = lineNum + 1
          /\ IF r.err # "nil"
             THEN /\ err' = r.err
                  /\ pc' = "done"
                  /\ UNCHANGED <<buffer, commentBuffer, queryIndex>>
             ELSE /\ buffer' = <<>>
                  /\ commentBuffer' = <<>>
                  /\ queryIndex' = queryIndex + 1
                  /\ UNCHANGED <<err, pc>>
    /\ UNCHANGED <<input, params, arg, ret, sinkVars>>

\* line 377-379: a line whose trimmed text starts with "--"
ReadComment ==
    /\ Running /\ lineNum < Len(input)
    /\ ~isCommandSeparator(NextLine)
    /\ HasPrefix(TrimSpace(NextLine), <<"-", "-">>)
    /\ commentBuffer' = commentBuffer \o NextLine \o <<"\n">>
    /\ lineNum' = lineNum + 1
    /\ UNCHANGED <<input, buffer, queryIndex, events, err, pc, params, arg, ret, sinkVars>>

\* line 380-386: any other line
ReadStatementLine ==
    /\ Running /\ lineNum < Len(input)
    /\ ~isCommandSeparator(NextLine)
    /\ ~HasPrefix(TrimSpace(NextLine), <<"-", "-">>)
    /\ buffer' = IF Len(buffer) > 0 THEN buffer \o <<"\n">> \o NextLine
                 ELSE buffer \o NextLine
    /\ lineNum' = lineNum + 1
    /\ UNCHANGED <<input, commentBuffer, queryIndex, events, err, pc, params,
                   arg, ret, sinkVars>>

\* a run that returns without executing what is left in the buffer
RemainingNotExecuted(scanErr) ==
    /\ pc' = "done"
    /\ err' = scanErr
    /\ UNCHANGED <<input, lineNum, buffer, commentBuffer, queryIndex, events,
                   params, arg, ret, sinkVars>>

\* line 389-399 after scanner.Scan() returned false; scanErr is scanner.Err()
Remaining(scanErr) ==
    /\ pc' = "done"
    /\ IF Len(buffer) > 0
       THEN \E r \in executions :
               /\ events' = events \o r.events
               /\ err' = IF r.err # "nil" THEN r.err ELSE scanErr
       ELSE /\ err' = scanErr
            /\ UNCHANGED events
    /\ UNCHANGED <<input, lineNum, buffer, commentBuffer, queryIndex, params,
                   arg, ret, sinkVars>>

\* scanner.Scan() returns false at the end of the input
EndOfInput ==
    /\ Running /\ lineNum = Len(input)
    /\ Remaining("nil")

\* scanner.Scan() returns false because reading failed (a read error, a
\* line longer than the scanner's buffer) before the input was exhausted
ScannerFails ==
    /\ Running /\ lineNum < Len(input)
    /\ Remaining("scanner")

processCommands ==
    \/ ReadSeparatorIdle
    \/ ReadSeparatorExecute
    \/ ReadComment
    \/ ReadStatementLine
    \/ EndOfInput
    \/ ScannerFails

\* the function harness is idle while a run of processCommands is modelled
NoCall == [fn |-> "none"]

\* no sink is followed while the splitter or a pure function is modelled
NoOutput == [Format |-> "none"]

InitCommands(lines, maps) ==
    /\ input \in lines
    /\ params \in maps
    /\ lineNum = 0
    /\ buffer = <<>>
    /\ commentBuffer = <<>>
    /\ queryIndex = 1
    /\ events = <<>>
    /\ err = "nil"
    /\ pc = "scan"
    /\ arg = NoCall
    /\ ret = NoCall
    /\ output = NoOutput
    /\ dest = <<>>
    /\ workbook = <<>>

Init == InitCommands(LinesUpTo(SplitLines, MaxLines), {NoParams, OneParam})
Next == processCommands
Spec == Init /\ [][Next]_vars

InitTab == InitCommands(LinesUpTo(TabLines, MaxLines), {NoParams})
SpecTab == InitTab /\ [][Next]_vars

----------------------------------------------------------------------------
(* processLines (src/main.go)                                              *)

\* lines 419-424 (and 402-408): the pending statement is trimmed and kept
\* when it is not empty
flushQuery(queries, currentQuery) ==
    IF Len(currentQuery) > 0 /\ TrimSpace(currentQuery) # <<>>
    THEN Append(queries, TrimSpace(currentQuery))
    ELSE queries

\* the loop of lines 394-416, as [queries, currentQuery] after the lines
RECURSIVE splitLoop(_, _, _)
splitLoop(lines, queries, currentQuery) ==
    IF lines = <<>> THEN [queries |-> queries, currentQuery |-> currentQuery]
    ELSE LET line == Head(lines)
         IN IF isSeparatorLine(line)
            THEN splitLoop(Tail(lines), flushQuery(queries, currentQuery), <<>>)
            ELSE splitLoop(Tail(lines), queries,
                           IF Len(currentQuery) > 0
                           THEN currentQuery \o <<"\n">> \o line
                           ELSE currentQuery \o line)

\* lines 426-437: one trailing semicolon is removed from each statement
RECURSIVE stripQueries(_)
stripQueries(queries) ==
    IF queries = <<>> THEN <<>>
    ELSE LET query == TrimSpace(TrimSuffix(Head(queries), <<";">>))
         IN (IF query # <<>> THEN <<query>> ELSE <<>>)
            \o stripQueries(Tail(queries))

processLines(lines) ==
    LET st == splitLoop(lines, <<>>, <<>>)
    IN stripQueries(flushQuery(st.queries, st.currentQuery))

----------------------------------------------------------------------------
(* Calls of the pure functions                                             *)

Idle ==
    /\ input = <<>>
    /\ params = NoParams
    /\ lineNum = 0
    /\ buffer = <<>>
    /\ commentBuffer = <<>>
    /\ queryIndex = 1
    /\ events = <<>>
    /\ err = "nil"
    /\ pc = "idle"
    /\ output = NoOutput
    /\ dest = <<>>
    /\ workbook = <<>>

Called == ret # NoCall

Result(fn, val) == [fn |-> fn, val |-> val]

StringAlphabet == {" ", "\n", "/", ";", "a"}

InitStrings ==
    /\ Idle
    /\ arg \in StringsUpTo(StringAlphabet, MaxStrLen)
    /\ ret = NoCall

CallIsCommandSeparator ==
    /\ ~Called
    /\ ret' = Result("isCommandSeparator", isCommandSeparator(arg))
    /\ UNCHANGED <<cmdVars, params, arg, sinkVars>>

CallIsSeparatorLine ==
    /\ ~Called
    /\ ret' = Result("isSeparatorLine", isSeparatorLine(arg))
    /\ UNCHANGED <<cmdVars, params, arg, sinkVars>>

CallCleanQuery ==
    /\ ~Called
    /\ ret' = Result("cleanQuery", cleanQuery(arg))
    /\ UNCHANGED <<cmdVars, params, arg, sinkVars>>

NextStrings ==
    \/ CallIsCommandSeparator
    \/ CallIsSeparatorLine
    \/ CallCleanQuery

SpecStrings == InitStrings /\ [][NextStrings]_vars

LineSemi2 == <<"a", ";", ";">>
LineSemi3 == <<"b", ";", " ", ";">>
\* a statement with the separator behind it on the same line, alone and
\* followed by a second statement
LineInline == Chars("a; /")
LineInline2 == Chars("a; / b;")
MainLines ==
    {LineEmpty, LineSlash, LineA, LineSemi, LineSemi2, LineSemi3, LineInline,
     LineInline2}

InitLines ==
    /\ Idle
    /\ arg \in LinesUpTo(MainLines, MaxLines)
    /\ ret = NoCall

CallProcessLines ==
    /\ ~Called
    /\ ret' = Result("processLines", processLines(arg))
    /\ UNCHANGED <<cmdVars, params, arg, sinkVars>>

NextLines == CallProcessLines

SpecLines == InitLines /\ [][NextLines]_vars

QueryAlphabet == {"&", "a", "b"}

ParamMaps ==
    { NoParams,
      (<<"a">> :> <<"x">>),
      (<<"a">> :> <<"&", "a">>),
      (<<"a", "b">> :> <<"y">>),
      (<<"a">> :> <<"x">>) @@ (<<"a", "b">> :> <<"y">>),
      (<<"a">> :> <<"&", "b">>) @@ (<<"b">> :> <<"x">>) }

InitSubst ==
    /\ Idle
    /\ arg \in [query : StringsUpTo(QueryAlphabet, MaxQueryLen),
                params : ParamMaps]
    /\ ret = NoCall

CallSubstituteParams ==
    /\ ~Called
    /\ \E order \in KeyOrders(arg.params) :
          ret' = Result("substituteParams",
                        substituteParams(arg.query, arg.params, order))
    /\ UNCHANGED <<cmdVars, params, arg, sinkVars>>

CallSubstituteParamsMain ==
    /\ ~Called
    /\ \E order \in KeyOrders(arg.params) :
          ret' = Result("substituteParamsMain",
                        substituteParamsMain(arg.query, arg.params, order))
    /\ UNCHANGED <<cmdVars, params, arg, sinkVars>>

NextSubst ==
    \/ CallSubstituteParams
    \/ CallSubstituteParamsMain

SpecSubst == InitSubst /\ [][NextSubst]_vars

----------------------------------------------------------------------------
(* Rows as the text sinks write them                                       *)

\* the rows of one or two cells over a set of cell values
RowsOf(cells) == {<<c>> : c \in cells} \cup {<<c, d>> : c \in cells, d \in cells}

\* writeTSV line 621-626 / writeCSV line 666-671: a header or data line is
\* the cells joined by the delimiter, nothing else (Fprintln ends the line)
delimitedLine(values, sep) == Join(values, sep)

\* main.go formatTSV
formatTSV(values) == Join(values, <<"\t">>)

\* main.go formatCSV: a value with a comma, a quote or a newline is quoted
formatCSVValue(v) ==
    IF ContainsAny(v, {",", "\"", "\n"})
    THEN <<"\"">> \o ReplaceAll(v, <<"\"">>, <<"\"", "\"">>) \o <<"\"">>
    ELSE v

formatCSV(values) ==
    Join([i \in 1..Len(values) |-> formatCSVValue(values[i])], <<",">>)

\* writeJIRA line 839-843: "||" and then every column followed by "||"
jiraHeaderLine(columns) ==
    <<"|", "|">> \o Concat([i \in 1..Len(columns) |-> columns[i] \o <<"|", "|">>])

\* writeJIRA line 848-853: "|" and then every cell followed by "|"
jiraDataLine(row) ==
    <<"|">> \o Concat([i \in 1..Len(row) |-> row[i] \o <<"|">>])

\* main.go executeQueryDefault line 676
jiraHeaderMain(columns) ==
    <<"|", "|">> \o Join(columns, <<"|", "|">>) \o <<"|", "|">>

\* main.go formatJira
formatJiraValue(v) ==
    ReplaceAll(ReplaceAll(v, <<"|">>, <<"\\", "|">>), <<"\n">>, <<" ">>)

formatJira(values) ==
    <<"|">> \o Join([i \in 1..Len(values) |-> formatJiraValue(values[i])],
                    <<"|">>) \o <<"|">>

\* writeHTMLTable line 785 and 796: Fprintf("%s") writes the cell as it is
htmlCellText(cell) == cell

\* main.go escapeHTML: "<" and ">" are replaced by themselves
escapeHTML(s) ==
    LET s1 == ReplaceAll(s, <<"&">>, Chars("&amp;"))
        s2 == ReplaceAll(s1, <<"<">>, <<"<">>)
        s3 == ReplaceAll(s2, <<">">>, <<">">>)
        s4 == ReplaceAll(s3, <<"\"">>, Chars("&quot;"))
    IN ReplaceAll(s4, <<"'">>, Chars("&#39;"))

CsvAlphabet == {",", "\"", "\n", "a"}
JiraAlphabet == {"|", "\n", " ", "a"}
HtmlAlphabet == {"&", "<", ">", "\"", "'", "a"}

InitCsv ==
    /\ Idle
    /\ arg \in RowsOf(StringsUpTo(CsvAlphabet, MaxCellLen))
    /\ ret = NoCall

CallWriteCSVLine ==
    /\ ~Called
    /\ ret' = Result("writeCSV", delimitedLine(arg, <<",">>))
    /\ UNCHANGED <<cmdVars, params, arg, sinkVars>>

CallFormatCSV ==
    /\ ~Called
    /\ ret' = Result("formatCSV", formatCSV(arg))
    /\ UNCHANGED <<cmdVars, params, arg, sinkVars>>

NextCsv ==
    \/ CallWriteCSVLine
    \/ CallFormatCSV

SpecCsv == InitCsv /\ [][NextCsv]_vars

InitJira ==
    /\ Idle
    /\ arg \in RowsOf(StringsUpTo(JiraAlphabet, MaxCellLen))
    /\ ret = NoCall

CallWriteJIRAHeader ==
    /\ ~Called
    /\ ret' = Result("writeJIRA header", jiraHeaderLine(arg))
    /\ UNCHANGED <<cmdVars, params, arg, sinkVars>>

CallWriteJIRALine ==
    /\ ~Called
    /\ ret' = Result("writeJIRA", jiraDataLine(arg))
    /\ UNCHANGED <<cmdVars, params, arg, sinkVars>>

CallJiraHeaderMain ==
    /\ ~Called
    /\ ret' = Result("executeQueryDefault header", jiraHeaderMain(arg))
    /\ UNCHANGED <<cmdVars, params, arg, sinkVars>>

CallFormatJira ==
    /\ ~Called
    /\ ret' = Result("formatJira", formatJira(arg))
    /\ UNCHANGED <<cmdVars, params, arg, sinkVars>>

NextJira ==
    \/ CallWriteJIRAHeader
    \/ CallWriteJIRALine
    \/ CallJiraHeaderMain
    \/ CallFormatJira

SpecJira == InitJira /\ [][NextJira]_vars

InitHtmlCell ==
    /\ Idle
    /\ arg \in StringsUpTo(HtmlAlphabet, MaxCellLen)
    /\ ret = NoCall

CallWriteHTMLCell ==
    /\ ~Called
    /\ ret' = Result("writeHTMLTable", htmlCellText(arg))
    /\ UNCHANGED <<cmdVars, params, arg, sinkVars>>

CallEscapeHTML ==
    /\ ~Called
    /\ ret' = Result("escapeHTML", escapeHTML(arg))
    /\ UNCHANGED <<cmdVars, params, arg, sinkVars>>

NextHtmlCell ==
    \/ CallWriteHTMLCell
    \/ CallEscapeHTML

SpecHtmlCell == InitHtmlCell /\ [][NextHtmlCell]_vars

----------------------------------------------------------------------------
(* Result sets and the text writers of src/unnamed/part_002                *)

\* a value the driver hands to rows.Scan: nil for SQL NULL, or a value
\* whose %v text is given
DbNull == [null |-> TRUE]
DbText(str) == [null |-> FALSE, text |-> Chars(str)]

\* executeQuery line 489-498: nil becomes "NULL", any other value its %v text
cellString(val) == IF val.null THEN Chars("NULL") ELSE val.text

\* executeQuery line 474-499: all rows are collected as strings
collectRows(rows) ==
    [r \in 1..Len(rows) |-> [c \in 1..Len(rows[r]) |-> cellString(rows[r][c])]]

\* what the database returns for a statement: column names and rows
ResultA1 == [columns |-> <<Chars("A")>>, rows |-> <<<<DbText("1")>>>>]
ResultB2 == [columns |-> <<Chars("B")>>, rows |-> <<<<DbText("2")>>>>]
ResultNulls ==
    [columns |-> <<Chars("A"), Chars("B")>>,
     rows |-> <<<<DbNull, DbText("x")>>, <<DbText("y"), DbNull>>>>]
ResultNoRows == [columns |-> <<Chars("A")>>, rows |-> <<>>]

ResultSets == {ResultA1, ResultB2, ResultNulls, ResultNoRows}

\* QueryInfo.TableName of a statement: none, or the name of a tab directive
TextLabels == {<<>>, Chars("T")}

\* the lines of a sequence, each ended as Fprintln ends it
linesText(lines) == Concat([i \in 1..Len(lines) |-> lines[i] \o <<"\n">>])

\* writeTSV / writeCSV / writeJIRA line 591-598: the content the writer
\* starts from: the file as it is (O_APPEND) for a later statement, what
\* stdout already got, or nothing after os.Create
openedContent(old, filename, queryIndex_) ==
    IF queryIndex_ > 1 /\ filename # <<>> THEN old
    ELSE IF filename = <<>> THEN old
    ELSE <<>>

\* writeTSV / writeCSV line 610-627 for the delimiter sep
delimitedText(sep, columns, data, withHeader, queryIndex_, queryInfo) ==
    (IF queryIndex_ > 1 THEN <<"\n">> ELSE <<>>)
    \o (IF queryInfo.TableName # <<>>
        THEN Chars("# ") \o queryInfo.TableName \o <<"\n">>
        ELSE <<>>)
    \o (IF withHeader THEN delimitedLine(columns, sep) \o <<"\n">> ELSE <<>>)
    \o linesText([r \in 1..Len(data) |-> delimitedLine(data[r], sep)])

writeTSV(old, filename, columns, data, withHeader, queryIndex_, queryInfo) ==
    openedContent(old, filename, queryIndex_)
    \o delimitedText(<<"\t">>, columns, data, withHeader, queryIndex_, queryInfo)

writeCSV(old, filename, columns, data, withHeader, queryIndex_, queryInfo) ==
    openedContent(old, filename, queryIndex_)
    \o delimitedText(<<",">>, columns, data, withHeader, queryIndex_, queryInfo)

writeJIRA(old, filename, columns, data, withHeader, queryIndex_, queryInfo) ==
    openedContent(old, filename, queryIndex_)
    \o (IF queryIndex_ > 1 THEN <<"\n">> ELSE <<>>)
    \o (IF queryInfo.TableName # <<>>
        THEN Chars("h1. ") \o queryInfo.TableName \o <<"\n", "\n">>
        ELSE <<>>)
    \o (IF withHeader THEN jiraHeaderLine(columns) \o <<"\n">> ELSE <<>>)
    \o linesText([r \in 1..Len(data) |-> jiraDataLine(data[r])])

\* writeHTMLNew line 703-717: the document header
htmlHeader ==
    Chars("<!DOCTYPE html>\n<html>\n<head>\n")
    \o Chars("    <meta charset=\"UTF-8\">\n")
    \o Chars("    <title>Query Results</title>\n")
    \o Chars("    <style>\n")
    \o Chars("        table { border-collapse: collapse; margin-bottom: 20px; }\n")
    \o Chars("        th, td { border: 1px solid #ddd; padding: 8px; text-align: left; }\n")
    \o Chars("        th { background-color: #f2f2f2; }\n")
    \o Chars("        .table-title { font-weight: bold; margin-bottom: 10px; font-size: 1.2em; }\n")
    \o Chars("    </style>\n</head>\n<body>\n")

\* writeHTMLNew line 727-730
htmlFooter == Chars("\n</body>\n</html>\n")

\* writeHTMLTable
writeHTMLTable(columns, data, withHeader, queryInfo) ==
    LET th(c) == Chars("                <th>") \o htmlCellText(columns[c])
                 \o Chars("</th>\n")
        td(row, c) == Chars("                <td>") \o htmlCellText(row[c])
                      \o Chars("</td>\n")
        tr(row) == Chars("            <tr>\n")
                   \o Concat([c \in 1..Len(row) |-> td(row, c)])
                   \o Chars("            </tr>\n")
    IN (IF queryInfo.TableName # <<>>
        THEN Chars("    <div class=\"table-title\">") \o queryInfo.TableName
             \o Chars("</div>\n")
        ELSE <<>>)
       \o Chars("    <table>\n")
       \o (IF withHeader
           THEN Chars("        <thead>\n            <tr>\n")
                \o Concat([c \in 1..Len(columns) |-> th(c)])
                \o Chars("            </tr>\n        </thead>\n")
           ELSE <<>>)
       \o Chars("        <tbody>\n")
       \o Concat([r \in 1..Len(data) |-> tr(data[r])])
       \o Chars("        </tbody>\n    </table>\n")

\* writeHTMLNew: stdout goes on, a file is created anew
writeHTMLNew(old, filename, columns, data, withHeader, queryInfo) ==
    [content |-> (IF filename = <<>> THEN old ELSE <<>>)
                 \o htmlHeader
                 \o writeHTMLTable(columns, data, withHeader, queryInfo)
                 \o htmlFooter,
     err |-> "nil"]

\* writeHTMLAppend: on stdout the table alone; in a file the table is put
\* before the last "</body>"
writeHTMLAppend(old, filename, columns, data, withHeader, queryInfo) ==
    LET table == writeHTMLTable(columns, data, withHeader, queryInfo)
        pos == LastIndex(old, Chars("</body>"))
    IN IF filename = <<>> THEN [content |-> old \o table, err |-> "nil"]
       ELSE IF pos = 0
       THEN [content |-> old, err |-> "invalid HTML file format"]
       ELSE [content |-> SubSeq(old, 1, pos - 1) \o table
                         \o SubSeq(old, pos, Len(old)),
             err |-> "nil"]

\* writeHTML
writeHTML(old, filename, columns, data, withHeader, queryIndex_, queryInfo) ==
    IF queryIndex_ = 1
    THEN writeHTMLNew(old, filename, columns, data, withHeader, queryInfo)
    ELSE writeHTMLAppend(old, filename, columns, data, withHeader, queryInfo)

----------------------------------------------------------------------------
(* Workbooks (excelize) and writeExcel                                     *)

\* a workbook is the sequence of its sheets; a sheet has a name and cells,
\* a function from <<column, row>> to the string stored there

\* excelize.NewFile: one empty sheet named "Sheet1"
NewFile == <<[name |-> Chars("Sheet1"), cells |-> <<>>]>>

SheetNames(f) == {f[i].name : i \in 1..Len(f)}

\* f.DeleteSheet(name): ignored when the sheet is the only one of the
\* workbook or does not exist
DeleteSheet(f, name) ==
    IF Len(f) = 1 \/ name \notin SheetNames(f) THEN f
    ELSE LET Other(sheet) == sheet.name # name IN SelectSeq(f, Other)

\* f.NewSheet(name): a sheet of that name is appended, unless there is one
\* already
NewSheet(f, name) ==
    IF name \in SheetNames(f) THEN f
    ELSE Append(f, [name |-> name, cells |-> <<>>])

\* f.SetCellValue(sheet, cell, value) for every cell of the function values
SetCellValues(f, name, values) ==
    LET Set(cells) == [k \in DOMAIN cells \cup DOMAIN values |->
                          IF k \in DOMAIN values THEN values[k] ELSE cells[k]]
    IN [i \in 1..Len(f) |->
           IF f[i].name = name
           THEN [name |-> name, cells |-> Set(f[i].cells)]
           ELSE f[i]]

\* fmt.Sprintf("%d", n)
RECURSIVE Itoa(_)
Itoa(n) ==
    LET digit == <<"0", "1", "2", "3", "4", "5", "6", "7", "8", "9">>[(n % 10) + 1]
    IN IF n < 10 THEN <<digit>> ELSE Itoa(n \div 10) \o <<digit>>

SheetNameLimit == 31

\* sanitizeSheetName: cut to 31 bytes, then each of \ / ? * [ ] becomes "_"
sanitizeSheetName(name) ==
    LET cut == IF Len(name) > SheetNameLimit
               THEN SubSeq(name, 1, SheetNameLimit) ELSE name
        replaced == [i \in 1..Len(cut) |->
                        IF cut[i] \in {"\\", "/", "?", "*", "[", "]"}
                        THEN "_" ELSE cut[i]]
    IN IF replaced = <<>> THEN Chars("Sheet") ELSE replaced

\* writeExcel line 882-889
sheetNameOf(queryIndex_, queryInfo) ==
    IF queryInfo.TableName # <<>>
    THEN sanitizeSheetName(queryInfo.TableName)
    ELSE Chars("Results") \o Itoa(queryIndex_)

\* writeExcel line 893-911: the cells set for a statement, the header in
\* row 1 when there is one
excelCells(columns, data, withHeader) ==
    LET first == IF withHeader THEN 1 ELSE 0
        heads == IF withHeader THEN {<<c, 1>> : c \in 1..Len(columns)} ELSE {}
        body == UNION {{<<c, r + first>> : c \in 1..Len(data[r])} :
                          r \in 1..Len(data)}
    IN [k \in heads \cup body |->
           IF k \in heads THEN columns[k[1]] ELSE data[k[2] - first][k[1]]]

\* writeExcel: the workbook saved under filename and the sheet written
writeExcel(old, filename, columns, data, withHeader, queryIndex_, queryInfo) ==
    LET f == IF queryIndex_ > 1 THEN old
             ELSE DeleteSheet(NewFile, Chars("Sheet1"))
        sheetName == sheetNameOf(queryIndex_, queryInfo)
    IN [content |-> SetCellValues(NewSheet(f, sheetName), sheetName,
                                  excelCells(columns, data, withHeader)),
        sheet |-> sheetName]

----------------------------------------------------------------------------
(* The text output of src/main.go                                          *)

\* executeQueryDefault line 700-707 / executeQueryHTML line 650-655: nil
\* becomes "", any other value its %v text
cellStringMain(val) == IF val.null THEN <<>> ELSE val.text

\* main.go formatRow
formatRow(values, format) ==
    IF format = "csv" THEN formatCSV(values)
    ELSE IF format = "jira" THEN formatJira(values)
    ELSE formatTSV(values)

\* main.go executeQueryDefault: what it writes for the rows of a statement
executeQueryDefault(config, columns, rows) ==
    LET strValues(r) == [c \in 1..Len(rows[r]) |-> cellStringMain(rows[r][c])]
    IN (IF config.Format = "jira" /\ ~config.NoHeader /\ Len(columns) > 0
        THEN jiraHeaderMain(columns) \o <<"\n">>
        ELSE IF ~config.NoHeader /\ Len(columns) > 0 /\ config.Format # "jira"
        THEN formatRow(columns, config.Format) \o <<"\n">>
        ELSE <<>>)
       \o linesText([r \in 1..Len(rows) |-> formatRow(strValues(r), config.Format)])

\* main.go executeQueryHTML: what it writes for the rows of a statement
executeQueryHTML(config, columns, rows) ==
    LET th(c) == Chars("<th>") \o escapeHTML(columns[c]) \o Chars("</th>")
        td(r, c) == Chars("<td>") \o escapeHTML(cellStringMain(rows[r][c]))
                    \o Chars("</td>")
        tr(r) == Chars("        <tr>")
                 \o Concat([c \in 1..Len(rows[r]) |-> td(r, c)])
                 \o Chars("</tr>\n")
    IN Chars("<table>\n")
       \o (IF ~config.NoHeader /\ Len(columns) > 0
           THEN Chars("    <thead>\n        <tr>")
                \o Concat([c \in 1..Len(columns) |-> th(c)])
                \o Chars("</tr>\n    </thead>\n")
           ELSE <<>>)
       \o Chars("    <tbody>\n")
       \o Concat([r \in 1..Len(rows) |-> tr(r)])
       \o Chars("    </tbody>\n</table>\n")

\* main.go executeTextQueries line 457-470: the document header on stdout
htmlHeaderMain ==
    Chars("<!DOCTYPE html>\n<html>\n<head>\n")
    \o Chars("    <meta charset=\"UTF-8\">\n")
    \o Chars("    <title>Query Results</title>\n")
    \o Chars("    <style>\n")
    \o Chars("        table { border-collapse: collapse; margin: 20px 0; }\n")
    \o Chars("        th, td { border: 1px solid #ddd; padding: 8px; text-align: left; }\n")
    \o Chars("        th { background-color: #f2f2f2; }\n")
    \o Chars("    </style>\n</head>\n<body>\n")

----------------------------------------------------------------------------
(* Statements written to one sink                                          *)

\* a statement whose rows were all read: what the database returned, its
\* label and (for a workbook) the sheet it was written to
resultEvent(idx, rs, label, sheet) ==
    [kind |-> "result", idx |-> idx, columns |-> rs.columns, rows |-> rs.rows,
     TableName |-> label, sheet |-> sheet]

OutFile == Chars("out")
OldContent == Chars("old\n")

TextFormats == {"tsv", "csv", "html", "jira"}

\* the labels of the statements written to a workbook: names that sanitize
\* or cut to the same sheet name, and one that is a generated name
LongLabel(last) == Chars("0123456789012345678901234567890") \o <<last>>
ExcelLabels ==
    {<<>>, Chars("T"), Chars("T/"), Chars("T?"), Chars("Results2"),
     LongLabel("a"), LongLabel("b")}
ExcelResults == {ResultA1, ResultB2, ResultNulls}

\* part_002: executeQuery line 446-512 for a statement that succeeds, with
\* the one sink `output` in params.Outputs; writeOutput dispatches on the
\* format
WritesOutput(format) ==
    /\ pc = "writeOutput"
    /\ output.Format = format
    /\ queryIndex <= MaxStatements

WriteTSV ==
    /\ WritesOutput("tsv")
    /\ \E rs \in ResultSets, label \in TextLabels :
          /\ dest' = writeTSV(dest, output.Filename, rs.columns,
                              collectRows(rs.rows), ~output.NoHeader,
                              queryIndex, [TableName |-> label])
          /\ events' = Append(events, resultEvent(queryIndex, rs, label, <<>>))
    /\ queryIndex' = queryIndex + 1
    /\ UNCHANGED <<input, lineNum, buffer, commentBuffer, err, pc, params,
                   arg, ret, output,
                   workbook>>

WriteCSV ==
    /\ WritesOutput("csv")
    /\ \E rs \in ResultSets, label \in TextLabels :
          /\ dest' = writeCSV(dest, output.Filename, rs.columns,
                              collectRows(rs.rows), ~output.NoHeader,
                              queryIndex, [TableName |-> label])
          /\ events' = Append(events, resultEvent(queryIndex, rs, label, <<>>))
    /\ queryIndex' = queryIndex + 1
    /\ UNCHANGED <<input, lineNum, buffer, commentBuffer, err, pc, params,
                   arg, ret, output,
                   workbook>>

WriteJIRA ==
    /\ WritesOutput("jira")
    /\ \E rs \in ResultSets, label \in TextLabels :
          /\ dest' = writeJIRA(dest, output.Filename, rs.columns,
                               collectRows(rs.rows), ~output.NoHeader,
                               queryIndex, [TableName |-> label])
          /\ events' = Append(events, resultEvent(queryIndex, rs, label, <<>>))
    /\ queryIndex' = queryIndex + 1
    /\ UNCHANGED <<input, lineNum, buffer, commentBuffer, err, pc, params,
                   arg, ret, output,
                   workbook>>

\* an error of writeOutput ends the run (processCommands line 359-361)
WriteHTML ==
    /\ WritesOutput("html")
    /\ \E rs \in ResultSets, label \in TextLabels :
          LET written == writeHTML(dest, output.Filename, rs.columns,
                                   collectRows(rs.rows), ~output.NoHeader,
                                   queryIndex, [TableName |-> label])
          IN /\ dest' = written.content
             /\ err' = written.err
             /\ IF written.err = "nil"
                THEN /\ events' = Append(events,
                                     resultEvent(queryIndex, rs, label, <<>>))
                     /\ queryIndex' = queryIndex + 1
                     /\ UNCHANGED pc
                ELSE /\ pc' = "done"
                     /\ UNCHANGED <<events, queryIndex>>
    /\ UNCHANGED <<input, lineNum, buffer, commentBuffer, params, arg, ret,
                   output, workbook>>

WriteExcel ==
    /\ pc = "writeOutput"
    /\ output.Format \in {"xls", "xlsx"}
    /\ queryIndex <= MaxStatements
    /\ \E rs \in ExcelResults, label \in ExcelLabels :
          LET written == writeExcel(dest, output.Filename, rs.columns,
                                    collectRows(rs.rows), ~output.NoHeader,
                                    queryIndex, [TableName |-> label])
          IN /\ dest' = written.content
             /\ events' = Append(events, resultEvent(queryIndex, rs, label,
                                                     written.sheet))
    /\ queryIndex' = queryIndex + 1
    /\ UNCHANGED <<input, lineNum, buffer, commentBuffer, err, pc, params,
                   arg, ret, output,
                   workbook>>

\* main.go executeTextQueries line 443-470: the output is created and, for
\* HTML on stdout, the document is opened
OpenTextOutput ==
    /\ pc = "executeTextQueries"
    /\ dest' = (IF output.Filename # <<>> THEN <<>> ELSE dest)
               \o (IF output.Format = "html" /\ output.Filename = <<>>
                   THEN htmlHeaderMain ELSE <<>>)
    /\ pc' = "queries"
    /\ UNCHANGED <<input, lineNum, buffer, commentBuffer, queryIndex, events,
                   err, params, arg, ret, output,
                   workbook>>

\* main.go executeTextQueries line 473-482, one turn of the loop with a
\* query that succeeds; queryIndex is i + 1
ExecuteTextQuery ==
    /\ pc = "queries"
    /\ queryIndex <= MaxStatements
    /\ \E rs \in ResultSets :
          /\ dest' = dest
                     \o (IF queryIndex - 1 > 0 /\ output.Filename = <<>>
                            /\ output.Format # "html"
                         THEN <<"\n">> ELSE <<>>)
                     \o (IF output.Format = "html"
                         THEN executeQueryHTML(output, rs.columns, rs.rows)
                         ELSE executeQueryDefault(output, rs.columns, rs.rows))
          /\ events' = Append(events, resultEvent(queryIndex, rs, <<>>, <<>>))
    /\ queryIndex' = queryIndex + 1
    /\ UNCHANGED <<input, lineNum, buffer, commentBuffer, err, pc, params,
                   arg, ret, output,
                   workbook>>

\* main.go executeTextQueries line 485-490: after the last query
CloseTextOutput ==
    /\ pc = "queries"
    /\ dest' = dest \o (IF output.Format = "html" /\ output.Filename = <<>>
                        THEN Chars("</body>\n</html>\n") ELSE <<>>)
    /\ pc' = "done"
    /\ UNCHANGED <<input, lineNum, buffer, commentBuffer, queryIndex, events,
                   err, params, arg, ret, output,
                   workbook>>

\* f.SetSheetName(source, target)
SetSheetName(f, source, target) ==
    [i \in 1..Len(f) |->
        IF f[i].name = source THEN [f[i] EXCEPT !.name = target] ELSE f[i]]

\* f.GetSheetName(index), index counted from 0
GetSheetName(f, index) == f[index + 1].name

\* main.go executeExcelQueries line 523-532: the workbook is made in memory
\* and the removal of its only sheet is asked for
NewExcelFile ==
    /\ pc = "executeExcelQueries"
    /\ workbook' = DeleteSheet(NewFile, GetSheetName(NewFile, 0))
    /\ pc' = "excelQueries"
    /\ UNCHANGED <<input, lineNum, buffer, commentBuffer, queryIndex, events,
                   err, params, arg, ret, output, dest>>

\* the sheet of query i + 1 (line 542-547); queryIndex is i + 1
excelQuerySheet(f, queryIndex_) ==
    LET sheetName == Chars("Query") \o Itoa(queryIndex_)
    IN IF queryIndex_ - 1 = 0
       THEN SetSheetName(f, GetSheetName(f, 0), sheetName)
       ELSE NewSheet(f, sheetName)

\* line 535-603, one turn of the loop with a query that succeeds: the cells
\* are set in memory, a nil value as ""
ExecuteExcelQuery ==
    /\ pc = "excelQueries"
    /\ queryIndex <= MaxStatements
    /\ \E rs \in ExcelResults :
          LET sheetName == Chars("Query") \o Itoa(queryIndex)
              data == [r \in 1..Len(rs.rows) |->
                         [c \in 1..Len(rs.rows[r]) |->
                             cellStringMain(rs.rows[r][c])]]
          IN /\ workbook' = SetCellValues(
                                excelQuerySheet(workbook, queryIndex),
                                sheetName,
                                excelCells(rs.columns, data,
                                           ~output.NoHeader
                                           /\ Len(rs.columns) > 0))
             /\ events' = Append(events, resultEvent(queryIndex, rs, <<>>,
                                                     sheetName))
    /\ queryIndex' = queryIndex + 1
    /\ UNCHANGED <<input, lineNum, buffer, commentBuffer, err, pc, params,
                   arg, ret, output, dest>>

\* line 549-553: db.Query fails; the sheet of the query is in the workbook
\* already and the function returns without saving
FailExcelQuery ==
    /\ pc = "excelQueries"
    /\ queryIndex <= MaxStatements
    /\ workbook' = excelQuerySheet(workbook, queryIndex)
    /\ err' = "query"
    /\ pc' = "done"
    /\ UNCHANGED <<input, lineNum, buffer, commentBuffer, queryIndex, events,
                   params, arg, ret, output, dest>>

\* line 607-610: after the last query the workbook is saved
SaveExcelFile ==
    /\ pc = "excelQueries"
    /\ dest' = workbook
    /\ pc' = "done"
    /\ UNCHANGED <<input, lineNum, buffer, commentBuffer, queryIndex, events,
                   err, params, arg, ret, output, workbook>>

OutputConfigs ==
    [Filename : {<<>>, OutFile}, Format : TextFormats, NoHeader : BOOLEAN]
        \cup [Filename : {OutFile}, Format : {"xls", "xlsx"}, NoHeader : BOOLEAN]

InitSinks ==
    /\ input = <<>>
    /\ params = NoParams
    /\ lineNum = 0
    /\ buffer = <<>>
    /\ commentBuffer = <<>>
    /\ queryIndex = 1
    /\ events = <<>>
    /\ err = "nil"
    /\ arg = NoCall
    /\ ret = NoCall
    /\ pc \in {"writeOutput", "executeTextQueries", "executeExcelQueries"}
    /\ output \in OutputConfigs
    /\ pc = "executeTextQueries" => output.Format \in TextFormats
    /\ pc = "executeExcelQueries" => output.Format \in {"xls", "xlsx"}
    /\ workbook = <<>>
    /\ dest = IF output.Filename # <<>> /\ output.Format \in TextFormats
              THEN OldContent ELSE <<>>

NextSinks ==
    \/ WriteTSV
    \/ WriteCSV
    \/ WriteJIRA
    \/ WriteHTML
    \/ WriteExcel
    \/ OpenTextOutput
    \/ ExecuteTextQuery
    \/ CloseTextOutput
    \/ NewExcelFile
    \/ ExecuteExcelQuery
    \/ FailExcelQuery
    \/ SaveExcelFile

SpecSinks == InitSinks /\ [][NextSinks]_vars

----------------------------------------------------------------------------
(* Calls of sanitizeSheetName and of the sheet naming of writeExcel        *)

SheetAlphabet == {"\\", "/", "?", "*", "[", "]", "a"}

\* a label of 30 characters, to which the last characters are added
LongPrefix == Chars("012345678901234567890123456789")

InitSheetName ==
    /\ Idle
    /\ arg \in [TableName : {prefix \o s :
                               prefix \in {<<>>, LongPrefix},
                               s \in StringsUpTo(SheetAlphabet, MaxCellLen)},
                queryIndex : 1..MaxStatements]
    /\ ret = NoCall

CallSanitizeSheetName ==
    /\ ~Called
    /\ ret' = Result("sanitizeSheetName", sanitizeSheetName(arg.TableName))
    /\ UNCHANGED <<cmdVars, params, arg, sinkVars>>

CallSheetNameOf ==
    /\ ~Called
    /\ ret' = Result("writeExcel sheetName",
                     sheetNameOf(arg.queryIndex, [TableName |-> arg.TableName]))
    /\ UNCHANGED <<cmdVars, params, arg, sinkVars>>

NextSheetName ==
    \/ CallSanitizeSheetName
    \/ CallSheetNameOf

SpecSheetName == InitSheetName /\ [][NextSheetName]_vars

----------------------------------------------------------------------------
(* Format resolution: writeOutput and getFormatFromExtension of            *)
(* src/unnamed/part_002, determineFormat of src/main.go                    *)

UpperLetters == Chars("ABCDEFGHIJKLMNOPQRSTUVWXYZ")
LowerLetters == Chars("abcdefghijklmnopqrstuvwxyz")

\* strings.ToLower on ASCII text
ToLower(s) ==
    [i \in 1..Len(s) |->
        IF \E k \in 1..Len(UpperLetters) : UpperLetters[k] = s[i]
        THEN LowerLetters[CHOOSE k \in 1..Len(UpperLetters) :
                              UpperLetters[k] = s[i]]
        ELSE s[i]]

\* filepath.Ext: the suffix beginning at the final dot of the final path
\* element, empty if there is no dot
filepathExt(path) ==
    LET dots == {i \in 1..Len(path) :
                    /\ path[i] = "."
                    /\ \A j \in i..Len(path) : path[j] # "/"}
    IN IF dots = {} THEN <<>>
       ELSE SubSeq(path, CHOOSE i \in dots : \A j \in dots : i >= j, Len(path))

\* getFormatFromExtension without the lowering of the file name
getFormatFromExtensionCaseSensitive(filename) ==
    IF HasSuffix(filename, Chars(".csv")) THEN "csv"
    ELSE IF HasSuffix(filename, Chars(".html"))
            \/ HasSuffix(filename, Chars(".htm")) THEN "html"
    ELSE IF HasSuffix(filename, Chars(".jira")) THEN "jira"
    ELSE IF HasSuffix(filename, Chars(".xls")) THEN "xls"
    ELSE IF HasSuffix(filename, Chars(".xlsx")) THEN "xlsx"
    ELSE "tsv"

getFormatFromExtension(filename) ==
    IF HasSuffix(ToLower(filename), Chars(".csv")) THEN "csv"
    ELSE IF HasSuffix(ToLower(filename), Chars(".html"))
            \/ HasSuffix(ToLower(filename), Chars(".htm")) THEN "html"
    ELSE IF HasSuffix(ToLower(filename), Chars(".jira")) THEN "jira"
    ELSE IF HasSuffix(ToLower(filename), Chars(".xls")) THEN "xls"
    ELSE IF HasSuffix(ToLower(filename), Chars(".xlsx")) THEN "xlsx"
    ELSE "tsv"

\* the value of `format` at the switch of writeOutput
writeOutputFormat(config) ==
    LET format == config.Format
        fromName == IF config.Filename # <<>>
                    THEN getFormatFromExtension(config.Filename)
                    ELSE format
    IN IF format = ""
       THEN IF fromName = "" THEN "tsv" ELSE fromName
       ELSE format

\* the writer the switch of writeOutput calls
writerOf(format) ==
    CASE format = "tsv" -> "writeTSV"
      [] format = "csv" -> "writeCSV"
      [] format = "html" -> "writeHTML"
      [] format = "jira" -> "writeJIRA"
      [] format \in {"xls", "xlsx"} -> "writeExcel"
      [] OTHER -> "writeTSV"

determineFormat(formatFlag, outputFile) ==
    IF formatFlag # "" THEN formatFlag
    ELSE IF outputFile # <<>>
    THEN LET ext == ToLower(filepathExt(outputFile))
         IN CASE ext = Chars(".csv") -> "csv"
              [] ext \in {Chars(".html"), Chars(".htm")} -> "html"
              [] ext = Chars(".xls") -> "xls"
              [] ext = Chars(".xlsx") -> "xlsx"
              [] ext = Chars(".jira") -> "jira"
              [] OTHER -> "tsv"
    ELSE "tsv"

FormatNames == {"tsv", "csv", "html", "jira", "xls", "xlsx"}

FileStems == {<<>>, Chars("a"), Chars("a.csv"), Chars("d.xls/A")}
FileEndings ==
    {<<>>, Chars(".csv"), Chars(".CSV"), Chars(".Csv"), Chars(".html"),
     Chars(".HTM"), Chars(".htm"), Chars(".xls"), Chars(".XLSX"),
     Chars(".xlsx"), Chars(".jira"), Chars(".Jira"), Chars(".tsv"),
     Chars(".txt"), Chars("csv"), Chars(".csvx"), Chars(".xlsm")}
FileNames == {stem \o ending : stem \in FileStems, ending \in FileEndings}

InitFormat ==
    /\ Idle
    /\ arg \in [Filename : FileNames, Format : FormatNames \cup {""}]
    /\ ret = NoCall

CallWriteOutputFormat ==
    /\ ~Called
    /\ ret' = Result("writeOutput", writeOutputFormat(arg))
    /\ UNCHANGED <<cmdVars, params, arg, sinkVars>>

CallDetermineFormat ==
    /\ ~Called
    /\ ret' = Result("determineFormat",
                     determineFormat(arg.Format, arg.Filename))
    /\ UNCHANGED <<cmdVars, params, arg, sinkVars>>

NextFormat == CallWriteOutputFormat \/ CallDetermineFormat

SpecFormat == InitFormat /\ [][NextFormat]_vars

----------------------------------------------------------------------------
(* Command line: parseFlags, createOutputConfigs and the input reader of   *)
(* run (src/unnamed/part_002), getQueries (src/main.go)                    *)

MaxFlags == 3

\* flag.Var with a stringSlice: Set appends the value of every occurrence of
\* the flag to the list the flag is bound to
RECURSIVE valuesOf(_, _)
valuesOf(flags, names) ==
    IF flags = <<>> THEN <<>>
    ELSE IF Head(flags).name \in names
    THEN <<Head(flags).value>> \o valuesOf(Tail(flags), names)
    ELSE valuesOf(Tail(flags), names)

outputsListOf(flags) == valuesOf(flags, {"output", "o"})
formatsListOf(flags) == valuesOf(flags, {"format", "f"})

\* (a command line holds plain strings; the file name of a configuration is
\* kept as the sequence of its characters, as the writers take it)
createOutputConfigs(outputsList, formatsList, noHeader) ==
    IF Len(outputsList) = 0
    THEN <<[Filename |-> <<>>, Format |-> "tsv", NoHeader |-> noHeader]>>
    ELSE [i \in 1..Len(outputsList) |->
            [Filename |-> Chars(outputsList[i]),
             Format |-> IF i <= Len(formatsList) /\ formatsList[i] # ""
                        THEN formatsList[i] ELSE "",
             NoHeader |-> noHeader]]

FlagOutputs == {"a.csv", "b.out"}
FlagFormats == {"html", "csv"}
OutputFlags ==
    [name : {"o"}, value : FlagOutputs] \cup [name : {"f"}, value : FlagFormats]

RECURSIVE FlagsUpTo(_)
FlagsUpTo(n) ==
    IF n = 0 THEN {<<>>}
    ELSE FlagsUpTo(n - 1)
         \cup {Append(flags, f) : flags \in {s \in FlagsUpTo(n - 1) :
                                               Len(s) = n - 1},
                                  f \in OutputFlags}

InitFlags ==
    /\ Idle
    /\ arg \in [flags : FlagsUpTo(MaxFlags), noHeader : BOOLEAN]
    /\ ret = NoCall

\* parseFlags (flag.Parse fills the two lists) and its call of
\* createOutputConfigs
CallCreateOutputConfigs ==
    /\ ~Called
    /\ ret' = Result("createOutputConfigs",
                     createOutputConfigs(outputsListOf(arg.flags),
                                         formatsListOf(arg.flags),
                                         arg.noHeader))
    /\ UNCHANGED <<cmdVars, params, arg, sinkVars>>

NextFlags == CallCreateOutputConfigs

SpecFlags == InitFlags /\ [][NextFlags]_vars

\* the input of one run: the two flags, the text of the file the -input flag
\* names, the text on standard input, and whether standard input is a
\* terminal
SqlTexts == {"select 1 from dual", "select 2 from dual", "select 3 from dual"}
InputFiles == {"", "q.sql", "r.sql"}
InputCodes == {"", "select 1 from dual", "select 4 from dual"}

\* the reader processCommands is given by run (part_002:270-283)
runReader(a) ==
    IF a.QueryCode # ""
    THEN [source |-> "code", text |-> a.QueryCode]
    ELSE IF a.InputFile # ""
    THEN [source |-> "file", text |-> a.fileText]
    ELSE [source |-> "stdin", text |-> a.stdinText]

\* getQueries of src/main.go: the text handed to processLines
getQueries(a) ==
    IF a.InputFile # ""
    THEN [source |-> "file", text |-> a.fileText]
    ELSE IF a.QueryCode # ""
    THEN [source |-> "code", text |-> a.QueryCode]
    ELSE [source |-> "stdin", text |-> a.stdinText]

InitInput ==
    /\ Idle
    /\ arg \in [InputFile : InputFiles, QueryCode : InputCodes,
                fileText : SqlTexts, stdinText : SqlTexts]
    /\ ret = NoCall

CallRunReader ==
    /\ ~Called
    /\ ret' = Result("run", runReader(arg))
    /\ UNCHANGED <<cmdVars, params, arg, sinkVars>>

CallGetQueries ==
    /\ ~Called
    /\ ret' = Result("getQueries", getQueries(arg))
    /\ UNCHANGED <<cmdVars, params, arg, sinkVars>>

NextInput == CallRunReader \/ CallGetQueries

SpecInput == InitInput /\ [][NextInput]_vars

----------------------------------------------------------------------------
(* Reference notions the claims are stated with                            *)

Min(S) == CHOOSE x \in S : \A y \in S : x <= y
Max(S) == CHOOSE x \in S : \A y \in S : x >= y

\* a line is a separator: its non-blank characters form one unbroken run
\* of at least one "/"
SeparatorByDefinition(line) ==
    LET solid == {i \in 1..Len(line) : line[i] \notin WhiteSpace}
    IN /\ solid # {}
       /\ \A i \in solid : line[i] = "/"
       /\ \A i \in Min(solid)..Max(solid) : i \in solid

\* the input without its maximal suffix of semicolons and whitespace, and
\* without leading whitespace
WithoutTrailingSemicolons(s) ==
    LET kept == {i \in 1..Len(s) : s[i] \notin WhiteSpace \cup {";"}}
        solid == {i \in 1..Len(s) : s[i] \notin WhiteSpace}
    IN IF kept = {} THEN <<>> ELSE SubSeq(s, Min(solid), Max(kept))

\* the lines joined by newline
RECURSIVE JoinLines(_)
JoinLines(lines) ==
    IF lines = <<>> THEN <<>>
    ELSE IF Len(lines) = 1 THEN lines[1]
    ELSE lines[1] \o <<"\n">> \o JoinLines(Tail(lines))

\* the runs of lines between the separator lines of an input
RECURSIVE GroupsOf(_, _)
GroupsOf(lines, current) ==
    IF lines = <<>> THEN <<current>>
    ELSE IF SeparatorByDefinition(Head(lines))
    THEN <<current>> \o GroupsOf(Tail(lines), <<>>)
    ELSE GroupsOf(Tail(lines), Append(current, Head(lines)))

\* the statements of an input: each run between separators, joined and
\* trimmed, the empty ones left out
StatementsByDefinition(lines) ==
    LET groups == GroupsOf(lines, <<>>)
        texts == [i \in 1..Len(groups) |-> TrimSpace(JoinLines(groups[i]))]
        NonEmpty(t) == t # <<>>
    IN SelectSeq(texts, NonEmpty)

\* an input made of empty lines, separator lines and statement lines that
\* neither end in ";" nor start with "--"
CleanInput ==
    \A i \in 1..Len(input) :
        \/ input[i] = <<>>
        \/ SeparatorByDefinition(input[i])
        \/ /\ TrimSpace(input[i]) # <<>>
           /\ ~HasSuffix(TrimSpace(input[i]), <<";">>)
           /\ ~HasPrefix(TrimSpace(input[i]), <<"-", "-">>)

\* no statement of the input holds a placeholder of the parameter map
NoPlaceholders ==
    \A k \in DOMAIN params :
        \A i \in 1..Len(StatementsByDefinition(input)) :
            Index(StatementsByDefinition(input)[i], <<"&">> \o k) = 0

IsQuery(e) == e.kind = "query"
QueryEvents == SelectSeq(events, IsQuery)
SentSql == [i \in 1..Len(QueryEvents) |-> QueryEvents[i].sql]

\* the lines between the separator line before line number n (or the start
\* of the input) and line number n
SegmentBefore(n) ==
    LET seps == {j \in 1..(n - 1) : SeparatorByDefinition(input[j])}
        from == IF seps = {} THEN 1 ELSE Max(seps) + 1
    IN SubSeq(input, from, n - 1)

\* the separator line before line number n, if any, executed a statement,
\* so that nothing read before it is still pending
FreshSegment(n) ==
    LET seps == {j \in 1..(n - 1) : SeparatorByDefinition(input[j])}
    IN seps # {} =>
          \E i \in 1..Len(events) :
              IsQuery(events[i]) /\ events[i].line = Max(seps)

RECURSIVE lastTabName(_)
lastTabName(lines) ==
    IF lines = <<>> THEN <<>>
    ELSE IF isTabDirective(lines[Len(lines)])
         THEN tabDirectiveName(lines[Len(lines)])
         ELSE lastTabName(SubSeq(lines, 1, Len(lines) - 1))

\* the lines read since the statement executed before events[i] (or since
\* the start of the input)
LinesSincePrevious(i) ==
    LET earlier == {events[j].line : j \in {j \in 1..(i - 1) : IsQuery(events[j])}}
        from == IF earlier = {} THEN 1 ELSE Max(earlier) + 1
    IN SubSeq(input, from, events[i].line - 1)


\* a CSV field as the format asks: wrapped in quotes, inner quotes doubled,
\* when it holds a comma, a quote or a newline
RECURSIVE DoubleQuotes(_)
DoubleQuotes(s) ==
    IF s = <<>> THEN <<>>
    ELSE IF Head(s) = "\"" THEN <<"\"", "\"">> \o DoubleQuotes(Tail(s))
    ELSE <<Head(s)>> \o DoubleQuotes(Tail(s))

CsvFieldByDefinition(v) ==
    IF \E i \in 1..Len(v) : v[i] \in {",", "\"", "\n"}
    THEN <<"\"">> \o DoubleQuotes(v) \o <<"\"">>
    ELSE v

\* a CSV reader over the text of one record: mode is "start" (at the start
\* of a field), "plain", "quoted" or "closed" (after the closing quote);
\* ok is FALSE when the text is not exactly one well-formed record
RECURSIVE CsvRead(_, _, _, _, _)
CsvRead(s, i, mode, field, fields) ==
    IF i > Len(s)
    THEN [ok |-> mode # "quoted", fields |-> Append(fields, field)]
    ELSE IF mode = "quoted"
    THEN IF s[i] # "\""
         THEN CsvRead(s, i + 1, "quoted", Append(field, s[i]), fields)
         ELSE IF i < Len(s) /\ s[i + 1] = "\""
         THEN CsvRead(s, i + 2, "quoted", Append(field, "\""), fields)
         ELSE CsvRead(s, i + 1, "closed", field, fields)
    ELSE IF s[i] = ","
    THEN CsvRead(s, i + 1, "start", <<>>, Append(fields, field))
    ELSE IF s[i] = "\n" \/ mode = "closed" \/ (s[i] = "\"" /\ mode = "plain")
    THEN [ok |-> FALSE, fields |-> fields]
    ELSE IF s[i] = "\""
    THEN CsvRead(s, i + 1, "quoted", <<>>, fields)
    ELSE CsvRead(s, i + 1, "plain", Append(field, s[i]), fields)

CsvReader(line) == CsvRead(line, 1, "start", <<>>, <<>>)

\* a Jira cell as the format asks: "|" written as "\|", a newline as a space
RECURSIVE JiraCellByDefinition(_)
JiraCellByDefinition(v) ==
    IF v = <<>> THEN <<>>
    ELSE IF Head(v) = "|" THEN <<"\\", "|">> \o JiraCellByDefinition(Tail(v))
    ELSE IF Head(v) = "\n" THEN <<" ">> \o JiraCellByDefinition(Tail(v))
    ELSE <<Head(v)>> \o JiraCellByDefinition(Tail(v))

\* the "|" of a line that no backslash precedes
UnescapedPipes(line) ==
    {i \in 1..Len(line) : line[i] = "|" /\ (i = 1 \/ line[i - 1] # "\\")}

\* an HTML cell as the format asks: each of & < > " ' written as its entity
RECURSIVE HtmlCellByDefinition(_)
HtmlCellByDefinition(v) ==
    IF v = <<>> THEN <<>>
    ELSE (CASE Head(v) = "&" -> Chars("&amp;")
            [] Head(v) = "<" -> Chars("&lt;")
            [] Head(v) = ">" -> Chars("&gt;")
            [] Head(v) = "\"" -> Chars("&quot;")
            [] Head(v) = "'" -> Chars("&#39;")
            [] OTHER -> <<Head(v)>>) \o HtmlCellByDefinition(Tail(v))

IsResult(e) == e.kind = "result"

\* the sink followed is a text sink of the given formats, written without
\* error by the statements logged in events
SinkWritten(formats) ==
    /\ output # NoOutput
    /\ output.Format \in formats
    /\ pc \in {"writeOutput", "queries", "done"}
    /\ err = "nil"
    /\ Len(events) >= 1

NoLabels == \A i \in 1..Len(events) : events[i].TableName = <<>>

NoNullCells ==
    \A i \in 1..Len(events) :
        \A r \in 1..Len(events[i].rows) :
            \A c \in 1..Len(events[i].rows[r]) : ~events[i].rows[r][c].null

\* the result block of a statement: the header line, then a line per row
BlockByDefinition(e, sep) ==
    Join(e.columns, sep) \o <<"\n">>
    \o Concat([r \in 1..Len(e.rows) |->
                 Join([c \in 1..Len(e.rows[r]) |-> e.rows[r][c].text], sep)
                 \o <<"\n">>])

\* the blocks of the statements with one empty line between two of them
BlocksByDefinition(sep) ==
    Join([i \in 1..Len(events) |-> BlockByDefinition(events[i], sep)], <<"\n">>)

\* the positions at which sub occurs in s
Occurrences(s, sub) ==
    {i \in 1..(Len(s) - Len(sub) + 1) : SubSeq(s, i, i + Len(sub) - 1) = sub}

\* the members of a set of numbers in increasing order
RECURSIVE Sorted(_)
Sorted(S) == IF S = {} THEN <<>> ELSE <<Min(S)>> \o Sorted(S \ {Min(S)})

\* the text from position i up to the next "<"
RECURSIVE UpToTag(_, _)
UpToTag(s, i) ==
    IF i > Len(s) \/ s[i] = "<" THEN <<>> ELSE <<s[i]>> \o UpToTag(s, i + 1)

\* the texts of the th and td elements of s, in order
CellTexts(s) ==
    LET starts == Sorted(Occurrences(s, Chars("<th>"))
                         \cup Occurrences(s, Chars("<td>")))
    IN [n \in 1..Len(starts) |-> UpToTag(s, starts[n] + 4)]

\* the cells of a statement in the order a table shows them, a NULL cell
\* standing for either of its renderings
ShownCells(e, withHeader) ==
    (IF withHeader THEN [c \in 1..Len(e.columns) |-> {e.columns[c]}] ELSE <<>>)
    \o Concat([r \in 1..Len(e.rows) |->
                 [c \in 1..Len(e.rows[r]) |->
                     IF e.rows[r][c].null THEN {Chars("NULL"), <<>>}
                     ELSE {e.rows[r][c].text}]])

\* the sheet of the saved workbook with the given name
SheetNamed(name) ==
    LET i == CHOOSE i \in 1..Len(dest) : dest[i].name = name IN dest[i]

\* the cells a statement puts on a sheet: the header in row 1 when headers
\* are enabled, the rows below; a NULL cell stands for either rendering
CellsByDefinition(e, withHeader) ==
    LET first == IF withHeader THEN 1 ELSE 0
        heads == IF withHeader THEN {<<c, 1>> : c \in 1..Len(e.columns)} ELSE {}
        body == UNION {{<<c, r + first>> : c \in 1..Len(e.rows[r])} :
                          r \in 1..Len(e.rows)}
    IN [k \in heads \cup body |->
           IF k \in heads THEN {e.columns[k[1]]}
           ELSE IF e.rows[k[2] - first][k[1]].null THEN {Chars("NULL"), <<>>}
           ELSE {e.rows[k[2] - first][k[1]].text}]

\* the cells of row r of a statement, a NULL cell shown as nullText
RowShown(e, r, nullText) ==
    [c \in 1..Len(e.rows[r]) |->
        IF e.rows[r][c].null THEN nullText ELSE e.rows[r][c].text]

\* the line of a text sink for row r of a statement with NULL shown as "NULL"
\* (no cell of the model's result sets needs quoting or escaping)
RowLineByDefinition(e, r, format) ==
    LET cells == RowShown(e, r, Chars("NULL"))
    IN IF format = "jira" THEN <<"|">> \o Join(cells, <<"|">>) \o <<"|">>
       ELSE Join(cells, IF format = "csv" THEN <<",">> ELSE <<"\t">>)

HasNull(e, r) == \E c \in 1..Len(e.rows[r]) : e.rows[r][c].null

\* the characters a sheet name may not hold
SheetNameForbidden == {"\\", "/", "?", "*", "[", "]"}

\* a label with the forbidden characters stripped, then cut to the limit
StrippedAndCut(label) ==
    LET Allowed(ch) == ch \notin SheetNameForbidden
        stripped == SelectSeq(label, Allowed)
    IN IF Len(stripped) > SheetNameLimit
       THEN SubSeq(stripped, 1, SheetNameLimit) ELSE stripped

\* the extension of a file name: the text after the last dot of the name,
\* in lower case; none when the name has no dot
ExtensionByDefinition(name) ==
    IF LastIndex(name, <<".">>) = 0 THEN <<>>
    ELSE ToLower(SubSeq(name, LastIndex(name, <<".">>) + 1, Len(name)))

\* the table of formats by extension
FormatByExtension(ext) ==
    IF ext = Chars("csv") THEN "csv"
    ELSE IF ext \in {Chars("html"), Chars("htm")} THEN "html"
    ELSE IF ext = Chars("xls") THEN "xls"
    ELSE IF ext = Chars("xlsx") THEN "xlsx"
    ELSE IF ext = Chars("jira") THEN "jira"
    ELSE "tsv"

\* the positions of the -output flags of a command line, in order
RECURSIVE OutputPositions(_, _)
OutputPositions(flags, from) ==
    IF from > Len(flags) THEN <<>>
    ELSE IF flags[from].name \in {"output", "o"}
    THEN <<from>> \o OutputPositions(flags, from + 1)
    ELSE OutputPositions(flags, from + 1)

\* the format of the -format flag that directly follows position p, none
\* when no -format flag follows it
FormatFollowing(flags, p) ==
    IF p < Len(flags) /\ flags[p + 1].name \in {"format", "f"}
    THEN flags[p + 1].value
    ELSE ""

\* every -format flag of the command line directly follows an -output flag
FormatsFollowOutputs(flags) ==
    \A p \in 1..Len(flags) :
        flags[p].name \in {"format", "f"} =>
            p > 1 /\ flags[p - 1].name \in {"output", "o"}

GivenFormats(flags) ==
    {flags[i].value : i \in {j \in 1..Len(flags) :
                                flags[j].name \in {"format", "f"}}}

\* a line with a '/' behind a statement, written as the statement, a
\* separator line and the rest of the line
RECURSIVE InlineSplit(_)
InlineSplit(line) ==
    LET at == Index(line, Chars("; /"))
    IN IF at = 0 THEN <<line>>
       ELSE LET rest == TrimSpace(SubSeq(line, at + 3, Len(line)))
            IN <<SubSeq(line, 1, at), <<"/">>>>
               \o (IF rest = <<>> THEN <<>> ELSE InlineSplit(rest))

RECURSIVE InlineSplitAll(_)
InlineSplitAll(lines) ==
    IF lines = <<>> THEN <<>>
    ELSE InlineSplit(Head(lines)) \o InlineSplitAll(Tail(lines))

----------------------------------------------------------------------------
(* Claims                                                                  *)

\* C1: a line is treated as a statement separator if and only if, trimmed of
\* leading and trailing whitespace, it is non-empty and made only of "/";
\* this holds for isCommandSeparator and for the inline test of processLines.
C1_SeparatorIff ==
    ret.fn \in {"isCommandSeparator", "isSeparatorLine"}
        => (ret.val <=> SeparatorByDefinition(arg))

\* a padded run of slashes was accepted as a separator
C1_Witness ==
    /\ ret.fn = "isCommandSeparator"
    /\ ret.val = TRUE
    /\ arg = <<" ", "/", "/", " ">>

\* C4: cleanQuery removes every trailing semicolon however padded: its
\* result has no leading or trailing whitespace, does not end in ";", and is
\* the input without its maximal suffix of semicolons and whitespace (and
\* without leading whitespace); other semicolons stay.
C4_CleanQueryStripsAll ==
    ret.fn = "cleanQuery"
        => /\ TrimSpace(ret.val) = ret.val
           /\ ~HasSuffix(ret.val, <<";">>)
           /\ ret.val = WithoutTrailingSemicolons(arg)

\* "a;; ;": several semicolons, padded, all removed
C4_Witness ==
    /\ ret.fn = "cleanQuery"
    /\ arg = <<"a", ";", ";", " ", ";">>
    /\ ret.val = <<"a">>

\* C5: every statement processLines returns has all of its trailing
\* semicolons removed: no returned statement ends in ";".
C5_NoTrailingSemicolon ==
    ret.fn = "processLines"
        => \A i \in 1..Len(ret.val) : ~HasSuffix(ret.val[i], <<";">>)

\* replacement of the occurrences of old, found by scanning s from
\* position i, each replaced once and the replacement never rescanned
RECURSIVE ReplaceByScan(_, _, _, _)
ReplaceByScan(s, i, old, new) ==
    IF i > Len(s) THEN <<>>
    ELSE IF i + Len(old) - 1 <= Len(s) /\ SubSeq(s, i, i + Len(old) - 1) = old
    THEN new \o ReplaceByScan(s, i + Len(old), old, new)
    ELSE <<s[i]>> \o ReplaceByScan(s, i + 1, old, new)

\* C8: with an empty parameter map the statement is returned unchanged; with
\* a single key k every occurrence of "&k" is replaced by the value of k and
\* nothing else changes (both revisions of substituteParams).
C8_SubstituteSingleKey ==
    ret.fn \in {"substituteParams", "substituteParamsMain"}
        => /\ DOMAIN arg.params = {} => ret.val = arg.query
           /\ \A k \in DOMAIN arg.params :
                DOMAIN arg.params = {k}
                    => ret.val = ReplaceByScan(arg.query, 1, <<"&">> \o k,
                                               arg.params[k])

\* two occurrences of the placeholder, both replaced
C8_Witness ==
    /\ ret.fn = "substituteParams"
    /\ arg.params = (<<"a">> :> <<"x">>)
    /\ arg.query = <<"&", "a", "&", "a">>
    /\ ret.val = <<"x", "x">>

\* C9: with two or more keys the result of substituteParams does not depend
\* on the order in which the keys are processed.
C9_OrderIndependent ==
    ret.fn = "substituteParams"
        => \A order \in KeyOrders(arg.params) :
              substituteParams(arg.query, arg.params, order) = ret.val

\* the characters a parameter name is made of
NameChars == {"a", "b", "k"}

\* the name of the placeholder token whose "&" is right before position i
RECURSIVE NameAt(_, _)
NameAt(s, i) ==
    IF i <= Len(s) /\ s[i] \in NameChars
    THEN <<s[i]>> \o NameAt(s, i + 1)
    ELSE <<>>

\* C10: a token "&name" whose name is not a key of the map is left verbatim,
\* also when a key is a proper prefix of name: a statement none of whose
\* tokens names a key is returned unchanged.
C10_UnmatchedLeftVerbatim ==
    ret.fn = "substituteParams"
        => ((\A i \in 1..Len(arg.query) :
                arg.query[i] = "&"
                    => NameAt(arg.query, i + 1) \notin DOMAIN arg.params)
            => ret.val = arg.query)

\* C2: for statements that hold no separator line, trailing semicolon or
\* "--" line, joined by "/" lines, with empty lines anywhere and with or
\* without a final separator, an error-free run of processCommands executes
\* exactly those statements, in order, each sent to the database trimmed;
\* what is left in the buffer at the end of the input is executed too.
C2_CleanInputSplits ==
    (pc = "done" /\ err = "nil" /\ CleanInput /\ NoPlaceholders)
        => SentSql = StatementsByDefinition(input)

\* two statements, an empty line between them, no final separator
C2_Witness ==
    /\ pc = "done" /\ err = "nil"
    /\ params = NoParams
    /\ input = <<LineA, LineSlash, LineEmpty, LineB>>
    /\ SentSql = <<<<"a">>, <<"&", "k">>>>

\* C3: when the buffer is empty after cleanup at a separator or at the end
\* of the input, nothing is executed: db.Query is never called for a
\* statement whose cleaned text is empty.
C3_EmptyStatementDropped ==
    \A i \in 1..Len(events) :
        IsQuery(events[i]) => cleanQuery(events[i].Query) # <<>>

\* C6: when several "-- tab = <name>" lines precede the same separator, the
\* statement's TableName is the name given by the last of them, and no
\* directive line is part of the statement text.
C6_LastDirectiveWins ==
    \A i \in 1..Len(events) :
        (/\ IsQuery(events[i])
         /\ FreshSegment(events[i].line)
         /\ Len(SelectSeq(SegmentBefore(events[i].line), isTabDirective)) >= 2)
            => /\ events[i].TableName = lastTabName(SegmentBefore(events[i].line))
               /\ \A n \in 1..Len(Split(events[i].Query, "\n")) :
                     ~isTabDirective(Split(events[i].Query, "\n")[n])

\* C7: the text handed to executeQuery is the newline-join, in input order,
\* of every non-separator line read since the previous executed statement,
\* except the tab directive lines; other "--" lines stay in the text.
C7_TextKeepsComments ==
    \A i \in 1..Len(events) :
        IsQuery(events[i])
            => LET Kept(line) == ~SeparatorByDefinition(line)
                                 /\ ~isTabDirective(line)
               IN events[i].Query
                    = JoinLines(SelectSeq(LinesSincePrevious(i), Kept))

\* C12: executeQuery exposes no partial result: when the query call, the
\* column lookup, a row scan or the final row check fails for a statement, no
\* sink is written for it; every sink write follows, with no other query in
\* between, a query of the same statement whose rows were all read.
C12_NoPartialResult ==
    /\ \A i \in 1..Len(events) :
          (IsQuery(events[i]) /\ events[i].outcome # "ok")
              => \A j \in 1..Len(events) :
                    events[j].kind \in {"write", "writeFailed"}
                        => /\ events[j].idx # events[i].idx
                           /\ j < i
    /\ \A j \in 1..Len(events) :
          events[j].kind \in {"write", "writeFailed"}
              => \E i \in 1..(j - 1) :
                    /\ IsQuery(events[i])
                    /\ events[i].idx = events[j].idx
                    /\ events[i].outcome = "ok"
                    /\ \A m \in (i + 1)..j : ~IsQuery(events[m])

\* a second statement whose row scan failed, after a first one was written
C12_Witness ==
    /\ pc = "done" /\ err = "scan"
    /\ Len(events) = 1 + Len(Outputs) + 1
    /\ events[1].outcome = "ok"
    /\ events[Len(events)].kind = "query"
    /\ events[Len(events)].outcome = "scan"
    /\ events[Len(events)].idx = 2

\* C13: in a run of processCommands without errors the statements are
\* executed in source order, and each statement is followed, before the next
\* one is sent to the database, by one write of every configured sink in the
\* configured order.
C13_SinksInOrder ==
    err = "nil"
        => LET block == 1 + Len(Outputs)
           IN /\ Len(events) % block = 0
              /\ \A n \in 0..((Len(events) \div block) - 1) :
                    /\ IsQuery(events[n * block + 1])
                    /\ events[n * block + 1].outcome = "ok"
                    /\ events[n * block + 1].idx = n + 1
                    /\ n > 0 => events[n * block + 1].line
                                   > events[(n - 1) * block + 1].line
                    /\ \A j \in 1..Len(Outputs) :
                          events[n * block + 1 + j]
                              = [kind |-> "write", idx |-> n + 1,
                                 sink |-> Outputs[j]]

\* two statements executed, each written to both sinks
C13_Witness ==
    /\ pc = "done" /\ err = "nil"
    /\ Len(events) = 2 * (1 + Len(Outputs))
    /\ events[2].sink = Outputs[1]
    /\ events[3].sink = Outputs[2]
    /\ events[4].idx = 2

\* C15: in CSV output every field with a comma, a double quote or a newline
\* is written in double quotes with its inner quotes doubled and every other
\* field unchanged, so that a CSV reader recovers the row from the line.
C15_CsvQuoting ==
    ret.fn \in {"writeCSV", "formatCSV"}
        => /\ ret.val = Join([i \in 1..Len(arg) |-> CsvFieldByDefinition(arg[i])],
                             <<",">>)
           /\ CsvReader(ret.val) = [ok |-> TRUE, fields |-> arg]

\* C16: in Jira output the header row is "||col||col||" and a data row is
\* "|cell|cell|" with every "|" of a cell written as "\|" and every newline
\* as a space, so that a data line has one unescaped "|" more than it has
\* cells.
C16_JiraEscaping ==
    /\ ret.fn \in {"writeJIRA header", "executeQueryDefault header"}
          => ret.val = <<"|", "|">>
                       \o Concat([i \in 1..Len(arg) |-> arg[i] \o <<"|", "|">>])
    /\ ret.fn \in {"writeJIRA", "formatJira"}
          => /\ ret.val = <<"|">>
                          \o Concat([i \in 1..Len(arg) |->
                                       JiraCellByDefinition(arg[i]) \o <<"|">>])
             /\ Cardinality(UnescapedPipes(ret.val)) = Len(arg) + 1

\* C18: in HTML output every header cell and every data cell is escaped
\* before it is written: each of the characters & < > " ' is replaced by its
\* entity, so that the written cell holds no "<" and no ">".
C18_HtmlEscaping ==
    ret.fn \in {"writeHTMLTable", "escapeHTML"}
        => /\ ret.val = HtmlCellByDefinition(arg)
           /\ \A i \in 1..Len(ret.val) : ret.val[i] \notin {"<", ">", "\"", "'"}

\* C14: after an error-free sequence of statements written to a TSV or CSV
\* sink with headers and without labels, the sink holds the result blocks
\* in statement order (header line, then a line per row), one empty line
\* between consecutive blocks and none before the first or after the last;
\* what a file held before the first statement is gone.
C14_BlocksWithOneBlankLine ==
    (SinkWritten({"tsv", "csv"}) /\ ~output.NoHeader /\ NoLabels /\ NoNullCells)
        => dest = BlocksByDefinition(IF output.Format = "tsv" THEN <<"\t">>
                                     ELSE <<",">>)

\* C17: after an error-free sequence of k statements written to an HTML file
\* the file is one document with one "<body>", one "</body>" and k "<table>"
\* elements between them, the n-th being the table of the n-th statement;
\* a later statement's table ends right before "</body>".
C17_OneBodyAllTables ==
    (SinkWritten({"html"}) /\ output.Filename # <<>>)
        => LET opens == Occurrences(dest, Chars("<body>"))
               closes == Occurrences(dest, Chars("</body>"))
               tables == Sorted(Occurrences(dest, Chars("<table>")))
               ends == Sorted(Occurrences(dest, Chars("</table>")))
               k == Len(events)
           IN /\ Cardinality(opens) = 1
              /\ Cardinality(closes) = 1
              /\ Len(tables) = k
              /\ Len(ends) = k
              /\ \A n \in 1..k :
                    /\ Min(opens) < tables[n]
                    /\ tables[n] < ends[n]
                    /\ ends[n] < Min(closes)
                    /\ n < k => ends[n] < tables[n + 1]
                    /\ LET cells == CellTexts(SubSeq(dest, tables[n], ends[n]))
                           shown == ShownCells(events[n], ~output.NoHeader)
                       IN /\ Len(cells) = Len(shown)
                          /\ \A c \in 1..Len(cells) : cells[c] \in shown[c]
              /\ k > 1 => SubSeq(dest, ends[k], Min(closes) - 1)
                             = Chars("</table>\n")

\* C19: after an error-free run of k statements without labels written to a
\* spreadsheet, the saved workbook has exactly k sheets and none of them is
\* the default sheet "Sheet1".
C19_ExactlyKSheets ==
    (SinkWritten({"xls", "xlsx"}) /\ NoLabels)
        => /\ Len(dest) = Len(events)
           /\ Chars("Sheet1") \notin SheetNames(dest)

\* C20: every statement of a run is written to a sheet of its own: no two
\* statements are written to the same sheet, and the sheet of a statement
\* holds the cells of that statement and no others, whatever the labels.
C20_OwnSheetPerStatement ==
    SinkWritten({"xls", "xlsx"})
        => /\ \A i, j \in 1..Len(events) :
                 i # j => events[i].sheet # events[j].sheet
           /\ \A i \in 1..Len(events) :
                 LET cells == SheetNamed(events[i].sheet).cells
                     own == CellsByDefinition(events[i], ~output.NoHeader)
                 IN /\ DOMAIN cells = DOMAIN own
                    /\ \A k \in DOMAIN own : cells[k] \in own[k]

\* C11: a SQL NULL cell is written as the text "NULL" by the TSV, CSV, HTML
\* and Jira sinks and as an empty cell by the spreadsheet sinks, for every
\* statement and every cell position.
C11_NullRendering ==
    /\ SinkWritten({"tsv", "csv", "jira"})
          => \A i \in 1..Len(events) : \A r \in 1..Len(events[i].rows) :
                HasNull(events[i], r)
                    => \E n \in 1..Len(Split(dest, "\n")) :
                          Split(dest, "\n")[n]
                              = RowLineByDefinition(events[i], r, output.Format)
    /\ (SinkWritten({"html"}) /\ output.NoHeader)
          => CellTexts(dest)
                = Concat([i \in 1..Len(events) |->
                            Concat([r \in 1..Len(events[i].rows) |->
                                      RowShown(events[i], r, Chars("NULL"))])])
    /\ SinkWritten({"xls", "xlsx"})
          => LET first == IF output.NoHeader THEN 0 ELSE 1
                 e == events[Len(events)]
                 cells == SheetNamed(e.sheet).cells
             IN \A r \in 1..Len(e.rows) : \A c \in 1..Len(e.rows[r]) :
                   e.rows[r][c].null
                       => (<<c, r + first>> \in DOMAIN cells
                              => cells[<<c, r + first>>] = <<>>)

\* a statement failed: its query, or the write of one of its sinks
IsFailure(e) ==
    \/ e.kind = "query" /\ e.outcome # "ok"
    \/ e.kind = "writeFailed"

\* C27: the run ends at the first error: a failed query or a failed sink
\* write is the last thing the run did (no later statement is sent, no other
\* sink is written), and the run has ended with a non-nil error.
C27_StopsAtFirstError ==
    /\ \A i \in 1..Len(events) :
          IsFailure(events[i])
              => /\ i = Len(events)
                 /\ pc = "done"
                 /\ err \in DbOutcomes \cup {"write"}
                 /\ err # "ok"
    /\ err # "nil" => pc = "done"

\* the first sink of the first statement could not be written; a second
\* statement was still to come
C27_Witness ==
    /\ pc = "done" /\ err = "write"
    /\ input = <<LineA, LineSlash, LineB, LineSlash>>
    /\ Len(events) = 2
    /\ events[2] = [kind |-> "writeFailed", idx |-> 1, sink |-> Outputs[1]]

\* C29: processCommands executes a statement only when a separator line or
\* the normal end of the input ended it: when reading fails part-way, what
\* is in the buffer is not sent to the database.
C29_NothingRunAfterReadError ==
    \A i \in 1..Len(events) :
        IsQuery(events[i])
            => \/ events[i].line <= lineNum
               \/ lineNum = Len(input)

\* C30: a tab directive labels only the statement it immediately precedes:
\* once a separator line is processed the comment buffer is empty, and the
\* label of a statement is the name of a directive found between the
\* previous separator line and the statement's own.
C30_DirectiveScope ==
    /\ (pc = "scan" /\ lineNum >= 1 /\ isCommandSeparator(input[lineNum]))
          => commentBuffer = <<>>
    /\ \A i \in 1..Len(events) :
          (IsQuery(events[i]) /\ events[i].TableName # <<>>)
              => \E n \in 1..Len(SegmentBefore(events[i].line)) :
                    /\ isTabDirective(SegmentBefore(events[i].line)[n])
                    /\ tabDirectiveName(SegmentBefore(events[i].line)[n])
                          = events[i].TableName

\* C21: the sheet name of a label is the label with each of \ / ? * [ ]
\* stripped, then cut to 31 characters, a generic name when that is empty;
\* without a label the name holds the statement's index. The name is never
\* empty, never longer than 31 characters and holds none of the six
\* characters.
C21_SheetNameSanitized ==
    /\ ret.fn \in {"sanitizeSheetName", "writeExcel sheetName"}
          => /\ ret.val # <<>>
             /\ Len(ret.val) <= SheetNameLimit
             /\ \A i \in 1..Len(ret.val) : ret.val[i] \notin SheetNameForbidden
    /\ (\/ ret.fn = "sanitizeSheetName"
        \/ ret.fn = "writeExcel sheetName" /\ arg.TableName # <<>>)
          => (StrippedAndCut(arg.TableName) # <<>>
                 => ret.val = StrippedAndCut(arg.TableName))
    /\ (ret.fn = "writeExcel sheetName" /\ arg.TableName = <<>>)
          => Index(ret.val, Itoa(arg.queryIndex)) > 0


\* C23: a sink without an explicit format gets the format of the table for
\* the extension of its file name, whatever the case of the extension, a
\* sink on standard output without an explicit format gets tsv, and an
\* explicit format wins over the extension.
C23_FormatResolution ==
    ret.fn \in {"writeOutput", "determineFormat"} =>
        IF arg.Format # "" THEN ret.val = arg.Format
        ELSE IF arg.Filename = <<>> THEN ret.val = "tsv"
        ELSE ret.val = FormatByExtension(ExtensionByDefinition(arg.Filename))

C23_Witness ==
    /\ ret.fn = "writeOutput"
    /\ arg = [Filename |-> Chars("a.CSV"), Format |-> ""]
    /\ ret.val = "csv"


\* C24: each -format flag sets the format of the -output flag before it: the
\* configuration built for an output carries the format of the -format flag
\* that directly follows that output on the command line, and no explicit
\* format when none follows it (command lines on which every -format flag
\* has an -output flag directly before it).
C24_FormatFollowsOutput ==
    (ret.fn = "createOutputConfigs" /\ FormatsFollowOutputs(arg.flags)) =>
        LET at == OutputPositions(arg.flags, 1)
        IN at # <<>> =>
              /\ Len(ret.val) = Len(at)
              /\ \A k \in 1..Len(at) :
                    /\ ret.val[k].Filename = Chars(arg.flags[at[k]].value)
                    /\ ret.val[k].Format = FormatFollowing(arg.flags, at[k])

\* C25: a format given without any -output flag is the format of the
\* results written to standard output.
C25_FormatOnStandardOutput ==
    (/\ ret.fn = "createOutputConfigs"
     /\ OutputPositions(arg.flags, 1) = <<>>
     /\ GivenFormats(arg.flags) # {}) =>
        /\ Len(ret.val) = 1
        /\ ret.val[1].Filename = <<>>
        /\ writeOutputFormat(ret.val[1]) \in GivenFormats(arg.flags)


\* C26: the SQL of a run comes from the file of -input when that flag is
\* given, even if -code is given too, otherwise from -code when that flag is
\* given, otherwise from standard input.
C26_InputPriority ==
    ret.fn \in {"run", "getQueries"} =>
        ret.val = IF arg.InputFile # ""
                  THEN [source |-> "file", text |-> arg.fileText]
                  ELSE IF arg.QueryCode # ""
                  THEN [source |-> "code", text |-> arg.QueryCode]
                  ELSE [source |-> "stdin", text |-> arg.stdinText]


\* C28: a '/' written on the same line behind a statement separates
\* statements as a separator line does: the statements of an input are those
\* of the same input with every such '/' on a line of its own (the line
\* "a; / b;" gives the statements "a" and "b", the line "a; /" ends the
\* statement "a").
C28_InlineSeparator ==
    ret.fn = "processLines" => ret.val = processLines(InlineSplitAll(arg))


\* C22: the workbook is saved after every statement: whenever the run is
\* between two statements, or has stopped at a failing statement, the file
\* on disk holds a sheet with the cells of every statement executed so far.
C22_SavedAfterEveryStatement ==
    (output # NoOutput /\ output.Format \in {"xls", "xlsx"}) =>
        \A i \in 1..Len(events) :
            IsResult(events[i]) =>
                \E k \in 1..Len(dest) :
                    LET own == CellsByDefinition(events[i], ~output.NoHeader)
                    IN /\ dest[k].name = events[i].sheet
                       /\ DOMAIN dest[k].cells = DOMAIN own
                       /\ \A c \in DOMAIN own : dest[k].cells[c] \in own[c]

====
